---- MODULE Spec2Model ----
(***************************************************************************)
(* Wormy 5.0 authoritative game server (server/src/index.ts).              *)
(*                                                                         *)
(* Fixed-point conventions used for the JavaScript doubles:                *)
(*   time        integer milliseconds (Date.now())                         *)
(*   angles      integer degrees (Pi = 180)                                *)
(*   positions   integer world units                                       *)
(*   score, food value            tenths of a point                        *)
(*   radii, lengths, multipliers  tenths                                   *)
(*   inputAllowance               thousandths of a token                   *)
(* Math.random() is a draw from a small set of per-mille values.           *)
(***************************************************************************)
EXTENDS Integers, Sequences, FiniteSets, TLC

\* ---------------------------------------------------------------- bounds
StartTime == 1000
MaxNow == 61200
MaxRooms == 2
MaxPlayerIds == 3
MaxFrames == 3
ClockStep == 30001
MaxRequests == 1
MaxBurst == 101
BucketStep == 500
BucketWindow == 1000
HeartbeatFrames == 2
HeartbeatStep == 1000
HeartbeatHorizon == 41000

\* ------------------------------------------------------- program constants
INPUTS_PER_SECOND == 30
INPUT_BUCKET_CAPACITY == 45
BROADCAST_RATE == 20

MINIMAP_REFRESH_MS == 500

TICK_RATE == 20
SPAWN_PADDING == 200
SPAWN_ATTEMPTS == 20
MIN_SPAWN_DISTANCE == 900
PING_PERIOD_MS == 2000
SWEEP_PERIOD_MS == 5000
NO_PONG_LIMIT_MS == 30000
IDLE_LIMIT_MS == 600000
Pi == 180
Null == -1

\* ------------------------------------------------------------ arithmetic
Min(a, b) == IF a < b THEN a ELSE b

Max(a, b) == IF a > b THEN a ELSE b

Abs(a) == IF a < 0 THEN -a ELSE a

\* a / b rounded to the nearest integer (b > 0)
RoundDiv(a, b) == (2 * a + b) \div (2 * b)

\* bisection for the integer square root: lo * lo <= n < hi * hi
RECURSIVE IsqrtBetween(_, _, _)
IsqrtBetween(n, lo, hi) ==
  IF hi - lo <= 1 THEN lo
  ELSE LET mid == (lo + hi) \div 2
       IN  IF mid * mid <= n THEN IsqrtBetween(n, mid, hi) ELSE IsqrtBetween(n, lo, mid)

\* floor(Math.sqrt(n))
Isqrt(n) == IF n <= 0 THEN 0 ELSE IsqrtBetween(n, 0, Min(n + 1, 46341))

SinTable ==
  << 0, 17, 35, 52, 70, 87, 105, 122, 139, 156, 174, 191, 208, 225, 242, 259,
     276, 292, 309, 326, 342, 358, 375, 391, 407, 423, 438, 454, 469, 485, 500,
     515, 530, 545, 559, 574, 588, 602, 616, 629, 643, 656, 669, 682, 695, 707,
     719, 731, 743, 755, 766, 777, 788, 799, 809, 819, 829, 839, 848, 857, 866,
     875, 883, 891, 899, 906, 914, 921, 927, 934, 940, 946, 951, 956, 961, 966,
     970, 974, 978, 982, 985, 988, 990, 993, 995, 996, 998, 999, 999, 1000,
     1000 >>

\* 1000 * Math.sin(deg), any integer deg
Sin1000(deg) ==
  LET d == deg % (2 * Pi)
  IN  IF d <= 90 THEN SinTable[d + 1]
      ELSE IF d <= 180 THEN SinTable[180 - d + 1]
      ELSE IF d <= 270 THEN -SinTable[d - 180 + 1]
      ELSE -SinTable[360 - d + 1]

\* 1000 * Math.cos(deg)
Cos1000(deg) == Sin1000(deg + 90)

\* ------------------------------------------------------------ geometry kit
distanceSquared(a, b) == (a[1] - b[1]) * (a[1] - b[1]) + (a[2] - b[2]) * (a[2] - b[2])

\* radius in tenths; score in tenths; cfg.bodyRadiusMultiplier in tenths
computeRadius(score, cfg) ==
  LET base == 60 + Isqrt((36 * Max(0, score)) \div 10)
      mult == Max(1, cfg.bodyRadiusMultiplier)
  IN  (base * mult) \div 10

\* target body length in tenths of a unit
computeTargetLength(score, cfg) ==
  LET base == 1200 + (score * 25) \div 10
      mult == Max(1, cfg.bodyLengthMultiplier)
  IN  (base * mult) \div 10

\* speed in tenths of a unit per second
computeSpeed(score, boosting) ==
  LET base == 22000000 \div (10000 + 4 * Max(0, score))
  IN  IF boosting THEN (base * 155) \div 100 ELSE base

\* turn rate in thousandths of a radian per second
computeMaxTurnRate(score) ==
  LET t == Min(1000, Isqrt((15625 * Max(0, score)) \div 1000))
  IN  2200 + (4800 * (1000 - t)) \div 1000

\* ------------------------------------------------------------ JSON values
\* A value of a frame field: k is its JavaScript type ("num" a finite number,
\* "nan" / "inf" the non-finite numbers, "str", "bool", "absent"), v its value
\* (a string-typed player id is the id's number, a boolean is 0 or 1).
Num(n) == [k |-> "num", v |-> n]

Str(n) == [k |-> "str", v |-> n]

Bool(b) == [k |-> "bool", v |-> IF b THEN 1 ELSE 0]

NaN == [k |-> "nan", v |-> 0]

Absent == [k |-> "absent", v |-> 0]

\* fault injection: every value passes for a number
IsAnything(a) == TRUE

\* typeof x === 'number'
IsNumber(a) == a.k \in {"num", "nan", "inf"}

\* Number.isFinite
IsFinite(a) == a.k = "num"

normalizeAngle(angle) ==
  IF ~IsFinite(angle) THEN 0
  ELSE LET twoPi == Pi * 2
           wrapped == angle.v + Pi
           normalized == wrapped - (wrapped \div twoPi) * twoPi
       IN  normalized - Pi

rotateTowards(current, target, maxDelta) ==
  LET diff == normalizeAngle(Num(target - current))
      clamped == Max(-maxDelta, Min(maxDelta, diff))
  IN  normalizeAngle(Num(current + clamped))

\* ------------------------------------------------------------- the world
\* The WebSocket objects the server may see, the names clients send, and the
\* values Math.random() returns (per mille).
Sockets == {"w1", "w2", "w3"}

\* the WebSocket objects of the admin endpoint
AdminSockets == {"a1", "a2"}

RawNames == {"", "al", " Al ", "bo"}

RandomDraws == {0, 500}

\* a name one character longer than the hello handler keeps
LongName == "Bartholomew-the-Wormy"

\* every string the name conversions read or produce
Names ==
  RawNames \cup {"Al", " al ", LongName, "bartholomew-the-wormy", "Bartholomew-the-Worm", "bartholomew-the-worm"}

\* the characters of a string (TLC strings are atomic)
Chars(name) ==
  CASE name = "" -> << >>
    [] name = "al" -> << "a", "l" >>
    [] name = "Al" -> << "A", "l" >>
    [] name = " Al " -> << " ", "A", "l", " " >>
    [] name = " al " -> << " ", "a", "l", " " >>
    [] name = "bo" -> << "b", "o" >>
    [] name = "Bartholomew-the-Wormy" -> << "B", "a", "r", "t", "h", "o", "l", "o", "m", "e", "w", "-", "t", "h", "e", "-", "W", "o", "r", "m", "y" >>
    [] name = "bartholomew-the-wormy" -> << "b", "a", "r", "t", "h", "o", "l", "o", "m", "e", "w", "-", "t", "h", "e", "-", "w", "o", "r", "m", "y" >>
    [] name = "Bartholomew-the-Worm" -> << "B", "a", "r", "t", "h", "o", "l", "o", "m", "e", "w", "-", "t", "h", "e", "-", "W", "o", "r", "m" >>
    [] name = "bartholomew-the-worm" -> << "b", "a", "r", "t", "h", "o", "l", "o", "m", "e", "w", "-", "t", "h", "e", "-", "w", "o", "r", "m" >>

Join(chars) == CHOOSE name \in Names : Chars(name) = chars

MaxNameLength == 20

RECURSIVE TrimStart(_)
TrimStart(chars) ==
  IF Len(chars) > 0 /\ chars[1] = " " THEN TrimStart(Tail(chars)) ELSE chars

RECURSIVE TrimEnd(_)
TrimEnd(chars) ==
  IF Len(chars) > 0 /\ chars[Len(chars)] = " "
  THEN TrimEnd(SubSeq(chars, 1, Len(chars) - 1))
  ELSE chars

\* String.prototype.trim()
Trim(raw) == Join(TrimEnd(TrimStart(Chars(raw))))

\* String.prototype.slice(0, n)
Slice(name, n) ==
  LET chars == Chars(name) IN Join(SubSeq(chars, 1, Min(n, Len(chars))))

\* rawName.trim().slice(0, 20)
TrimSlice(raw) == Slice(Trim(raw), MaxNameLength)

LowerChar(c) ==
  CASE c = "A" -> "a"
    [] c = "B" -> "b"
    [] c = "W" -> "w"
    [] OTHER -> c

\* String.prototype.toLowerCase
ToLowerCase(name) ==
  LET chars == Chars(name)
  IN  Join([i \in 1..Len(chars) |-> LowerChar(chars[i])])

DEFAULT_ROOM_CONFIG ==
  [ mapSize |-> 5000, maxPlayers |-> 100, foodCoveragePercent |-> 2,
    foodSpawnRatePerSecond |-> 200, emptyRoomTtlSeconds |-> 60,
    suctionRadiusMultiplier |-> 10, suctionStrengthMultiplier |-> 6,
    foodValueMultiplier |-> 10, foodNearPlayerTarget |-> 80,
    bodyRadiusMultiplier |-> 10, bodyLengthMultiplier |-> 10 ]

\* { ...config, ...{key: value} }
Merge(config, key, value) == [config EXCEPT ![key] = value]

\* the default config once the admin has PATCHed /admin/config/default to a
\* sparsely fed world: {foodCoveragePercent: 0, foodNearPlayerTarget: 1}
SparseConfig ==
  Merge(Merge(DEFAULT_ROOM_CONFIG, "foodCoveragePercent", 0), "foodNearPlayerTarget", 1)

VARIABLES
  now,            \* Date.now()
  wsState,        \* socket -> "idle" | "open" | "closing" | "closed"
  closeCode,      \* socket -> code of the close() that closed it, or Null
  meta,           \* wsToMeta: socket -> ClientMeta (sockets without one are absent)
  rooms,          \* RoomManager.rooms: room id -> GameRoom, in insertion order
  defaultConfig,  \* RoomManager.defaultConfig
  nextRoomId,     \* uuidv4() for rooms: the next fresh room id
  nextPlayerId,   \* uuidv4() for players: the next fresh player id
  bannedNames,
  metrics,
  nextPingAt,     \* earliest time the ping interval fires next
  nextSweepAt,    \* earliest time the idle sweep fires next
  nextTickAt,     \* earliest time the simulation interval fires next
  nextBroadcastAt, \* earliest time the broadcast interval fires next
  sent,           \* frames passed to ws.send() by the last handler, in order
  logged,         \* entries passed to addLog() by the last handler, in order
  adminState,     \* admin socket -> "idle" | "open" | "closing" | "closed"
  adminMeta,      \* adminWsToMeta: admin socket -> subscribedRoomId (or Null)
  frames,         \* history: number of frames received so far
  requests,       \* history: number of admin requests served so far
  accepted,       \* history: socket -> (time -> inputs accepted at that time)
  firstPingAt,    \* history: socket -> time of the first ping sent to it, or Null
  tickLog,        \* history: per room, what the last tick's collision scan saw
  stateLog        \* history: socket -> the state frames sent to it: serverNow, room, player

vars ==
  << now, wsState, closeCode, meta, rooms, defaultConfig, nextRoomId,
     nextPlayerId, bannedNames, metrics, nextPingAt, nextSweepAt, nextTickAt,
     nextBroadcastAt, sent, logged, adminState, adminMeta, frames, requests,
     accepted, firstPingAt, tickLog, stateLog >>

adminVars == << adminState, adminMeta >>

timerVars == << nextPingAt, nextSweepAt, nextTickAt, nextBroadcastAt >>

histVars == << accepted, firstPingAt, tickLog, stateLog >>

\* ------------------------------------------------------------- map helpers
EmptyMap == [x \in {} |-> x]

MapSet(f, k, v) == [x \in DOMAIN f \cup {k} |-> IF x = k THEN v ELSE f[x]]

MapDelete(f, k) == [x \in DOMAIN f \ {k} |-> f[x]]

\* the keys of a Map in insertion order (ids are handed out in increasing order)
RECURSIVE KeysInOrder(_)
KeysInOrder(S) ==
  IF S = {} THEN << >>
  ELSE LET m == CHOOSE x \in S : \A y \in S : x <= y
       IN  << m >> \o KeysInOrder(S \ {m})

\* a set of sockets in the iteration order of wss.clients (connection order is
\* not recorded: the sockets are taken in name order)
RECURSIVE KeysInOrderOfSockets(_)
KeysInOrderOfSockets(S) ==
  IF S = {} THEN << >>
  ELSE LET m == CHOOSE x \in S : \A y \in S : (x = "w1") \/ (x = "w2" /\ y # "w1") \/ (y = "w3")
       IN  << m >> \o KeysInOrderOfSockets(S \ {m})

Frame(to, t, a, b) == [to |-> to, t |-> t, a |-> a, b |-> b]

LogEntry(type, roomId, playerId) == [type |-> type, roomId |-> roomId, playerId |-> playerId]

\* ws.close(code): starts the closing handshake of an open socket; a socket
\* that is already closing or closed keeps its state and code
CloseSockets(state, S) == [w \in Sockets |-> IF w \in S /\ state[w] = "open" THEN "closing" ELSE state[w]]

\* fault injection: a close that records no code
CloseCodesKept(codes, state, S, code) == codes

CloseCodes(codes, state, S, code) ==
  [w \in Sockets |-> IF w \in S /\ state[w] = "open" THEN code ELSE codes[w]]

\* The server after construction and the admin's PATCH of the default config,
\* before any socket has connected.
Init ==
  /\ now = StartTime
  /\ wsState = [w \in Sockets |-> "idle"]
  /\ closeCode = [w \in Sockets |-> Null]
  /\ meta = EmptyMap
  /\ rooms = EmptyMap
  /\ defaultConfig = SparseConfig
  /\ nextRoomId = 1
  /\ nextPlayerId = 1
  /\ bannedNames = {}
  /\ metrics = [inputSpoofRejected |-> 0, inputInvalid |-> 0, inputThrottled |-> 0,
                roomsClosedTimeout |-> 0]
  /\ nextPingAt = StartTime + PING_PERIOD_MS
  /\ nextSweepAt = StartTime + SWEEP_PERIOD_MS
  /\ nextTickAt = StartTime + 1000 \div TICK_RATE
  /\ nextBroadcastAt = StartTime + 1000 \div BROADCAST_RATE
  /\ sent = << >>
  /\ logged = << >>
  /\ adminState = [a \in AdminSockets |-> "idle"]
  /\ adminMeta = EmptyMap
  /\ frames = 0
  /\ requests = 0
  /\ accepted = [w \in Sockets |-> EmptyMap]
  /\ firstPingAt = [w \in Sockets |-> Null]
  /\ tickLog = EmptyMap
  /\ stateLog = [w \in Sockets |-> << >>]

\* ------------------------------------------------------------ RoomManager
\* room.minimapSnapshot: null, or the players the minimap shows
NoSnapshot == [taken |-> FALSE, players |-> << >>]

\* fault injection: a createRoom that starts from the template the server
\* booted with instead of the configuration it is handed
NewRoomFromTemplate(cfg) ==
  [ config |-> SparseConfig, players |-> EmptyMap, spectators |-> {}, isClosed |-> FALSE,
    foods |-> << >>, lastBroadcastAt |-> 0, emptySince |-> now,
    minimapSnapshot |-> NoSnapshot, minimapSnapshotAt |-> 0 ]

NewRoom(cfg) ==
  [ config |-> cfg, players |-> EmptyMap, spectators |-> {}, isClosed |-> FALSE,
    foods |-> << >>, lastBroadcastAt |-> 0, emptySince |-> now,
    minimapSnapshot |-> NoSnapshot, minimapSnapshotAt |-> 0 ]

\* fault injection: a search that returns the last room with a free slot
LastRoomWithSlot ==
  LET open == { id \in DOMAIN rooms :
                  ~rooms[id].isClosed
                  /\ Cardinality(DOMAIN rooms[id].players) < rooms[id].config.maxPlayers }
  IN  IF open = {} THEN Null ELSE CHOOSE id \in open : \A o \in open : id >= o

\* RoomManager.findRoomWithSlot: the id of the first room with a free slot, or
\* Null when a room has to be created
FirstRoomWithSlot ==
  LET open == { id \in DOMAIN rooms :
                  ~rooms[id].isClosed
                  /\ Cardinality(DOMAIN rooms[id].players) < rooms[id].config.maxPlayers }
  IN  IF open = {} THEN Null ELSE CHOOSE id \in open : \A o \in open : id <= o

\* (Math.random() * 2 - 1) * range, for a draw r per mille
RandomCoord(r, range) == ((2 * r - 1000) * range) \div 1000

\* the minimum squared distance of pos to the players of a room
MinDist2(room, pos) ==
  LET ds == { distanceSquared(pos, room.players[p].position) : p \in DOMAIN room.players }
  IN  CHOOSE d \in ds : \A e \in ds : d <= e

\* the attempts loop of pickSpawnPosition over the candidates cands[i..]
RECURSIVE SpawnAttempts(_, _, _, _, _)
SpawnAttempts(room, cands, i, bestPos, bestScore) ==
  IF i > Len(cands) THEN bestPos
  ELSE LET pos == cands[i]
           minDist2 == MinDist2(room, pos)
       IN  IF minDist2 >= MIN_SPAWN_DISTANCE * MIN_SPAWN_DISTANCE THEN pos
           ELSE IF minDist2 > bestScore
                THEN SpawnAttempts(room, cands, i + 1, pos, minDist2)
                ELSE SpawnAttempts(room, cands, i + 1, bestPos, bestScore)

\* pickSpawnPosition, the random draws being r1 for the first candidate and r2
\* for every later one (x drawn, y drawn as 0.5)
pickSpawnPosition(room, r1, r2) ==
  LET range == room.config.mapSize - SPAWN_PADDING
      c1 == << RandomCoord(r1, range), RandomCoord(500, range) >>
      c2 == << RandomCoord(r2, range), RandomCoord(500, range) >>
  IN  IF DOMAIN room.players = {} THEN c1
      ELSE SpawnAttempts(room, [i \in 1..SPAWN_ATTEMPTS |-> IF i = 1 THEN c1 ELSE c2],
                         1, c1, -1)

\* ------------------------------------------------------- player socket
NewMeta ==
  [ roomId |-> Null, lastPingId |-> Null, lastPingSentAt |-> Null, rttMs |-> Null,
    lastPongAt |-> Null, lastInputAt |-> Null, lastMessageAt |-> now,
    inputAllowance |-> INPUT_BUCKET_CAPACITY * 1000, inputRefillAt |-> now ]

\* frames reach the handlers of a socket until its close event has been handled
Receiving(ws) == wsState[ws] \in {"open", "closing"}

\* wss.on('connection')
Connect(ws) ==
  /\ wsState[ws] = "idle"
  /\ wsState' = [wsState EXCEPT ![ws] = "open"]
  /\ meta' = MapSet(meta, ws, NewMeta)
  /\ sent' = << Frame(ws, "welcome", 0, 0) >>
  /\ logged' = << >>
  /\ UNCHANGED << adminVars, now, closeCode, rooms, defaultConfig, nextRoomId, nextPlayerId,
                  bannedNames, metrics, timerVars, frames, requests, histVars >>

\* the tail of ws.on('message'), reached when no branch returned
TouchLastMessage(ws) ==
  IF ws \in DOMAIN meta THEN [meta EXCEPT ![ws].lastMessageAt = now] ELSE meta

\* The player a successful hello creates.
NewPlayer(id, name, ws, spawnPos, spawnDir) ==
  [ id |-> id, name |-> name, score |-> 100, position |-> spawnPos,
    directionRad |-> spawnDir, targetDirectionRad |-> spawnDir, boosting |-> FALSE,
    ws |-> ws, bodyPoints |-> << spawnPos >> ]

\* fault injection: a join that leaves room.emptySince as it finds it
HelloJoinKeepsEmptySince(ws, name, r1, r2, rDir) ==
  LET found == FirstRoomWithSlot
      roomId == IF found = Null THEN nextRoomId ELSE found
      room == IF found = Null THEN NewRoom(defaultConfig) ELSE rooms[found]
      playerId == nextPlayerId
      spawnPos == pickSpawnPosition(room, r1, r2)
      spawnDir == (rDir * 2 * Pi) \div 1000
      player == NewPlayer(playerId, name, ws, spawnPos, spawnDir)
      joined == [room EXCEPT !.players = MapSet(room.players, playerId, player)]
  IN  /\ found = Null => nextRoomId <= MaxRooms
      /\ nextPlayerId <= MaxPlayerIds
      /\ rooms' = MapSet(rooms, roomId, joined)
      /\ nextRoomId' = IF found = Null THEN nextRoomId + 1 ELSE nextRoomId
      /\ nextPlayerId' = nextPlayerId + 1
      /\ meta' = [meta EXCEPT ![ws].roomId = roomId]
      /\ sent' = << Frame(ws, "joined", roomId, playerId) >>
      /\ logged' = (IF found = Null THEN << LogEntry("room_open", roomId, 0) >> ELSE << >>)
                     \o << LogEntry("player_join", roomId, playerId) >>

\* hello: the join itself (lines 405-424), once the name checks have passed
HelloJoin(ws, name, r1, r2, rDir) ==
  LET found == FirstRoomWithSlot
      roomId == IF found = Null THEN nextRoomId ELSE found
      room == IF found = Null THEN NewRoom(defaultConfig) ELSE rooms[found]
      playerId == nextPlayerId
      spawnPos == pickSpawnPosition(room, r1, r2)
      spawnDir == (rDir * 2 * Pi) \div 1000
      player == NewPlayer(playerId, name, ws, spawnPos, spawnDir)
      joined == [room EXCEPT !.players = MapSet(room.players, playerId, player),
                             !.emptySince = Null]
  IN  /\ found = Null => nextRoomId <= MaxRooms
      /\ nextPlayerId <= MaxPlayerIds
      /\ rooms' = MapSet(rooms, roomId, joined)
      /\ nextRoomId' = IF found = Null THEN nextRoomId + 1 ELSE nextRoomId
      /\ nextPlayerId' = nextPlayerId + 1
      /\ meta' = [meta EXCEPT ![ws].roomId = roomId]
      /\ sent' = << Frame(ws, "joined", roomId, playerId) >>
      /\ logged' = (IF found = Null THEN << LogEntry("room_open", roomId, 0) >> ELSE << >>)
                     \o << LogEntry("player_join", roomId, playerId) >>

\* fault injection: a hello branch that never finds the session bound
AlreadyJoinedNever(m) == FALSE

\* the hello branch's check that the session is bound to a room (line 404)
AlreadyJoined(m) == m.roomId # Null

\* ws.on('message'), msg.t === 'hello'
Hello(ws, raw, r1, r2, rDir) ==
  LET name == TrimSlice(raw)
  IN  /\ Receiving(ws)
      /\ frames' = frames + 1
      /\ IF name = ""
         THEN /\ sent' = << Frame(ws, "error:INVALID_NAME", 0, 0) >>
              /\ logged' = << >>
              /\ UNCHANGED << meta, rooms, nextRoomId, nextPlayerId >>
         ELSE IF ToLowerCase(name) \in bannedNames
         THEN /\ sent' = << Frame(ws, "error:BANNED", 0, 0) >>
              /\ logged' = << >>
              /\ UNCHANGED << meta, rooms, nextRoomId, nextPlayerId >>
         ELSE IF ws \notin DOMAIN meta
         THEN \* meta.roomId throws on undefined; the catch swallows it
              /\ sent' = << >>
              /\ logged' = << >>
              /\ UNCHANGED << meta, rooms, nextRoomId, nextPlayerId >>
         ELSE IF AlreadyJoined(meta[ws])
         THEN /\ sent' = << >>
              /\ logged' = << >>
              /\ UNCHANGED << meta, rooms, nextRoomId, nextPlayerId >>
         ELSE HelloJoin(ws, name, r1, r2, rDir)
      /\ UNCHANGED << adminVars, now, wsState, closeCode, defaultConfig, bannedNames, metrics,
                      timerVars, requests, histVars >>

\* fault injection: a refill without the cap at the bucket's capacity
RefillUncapped(m) ==
  [m EXCEPT !.inputAllowance = @ + (now - m.inputRefillAt) * INPUTS_PER_SECOND,
            !.inputRefillAt = now]

\* the token bucket refill of the input branch (lines 442-447): the ClientMeta
\* after the refill
Refill(m) ==
  LET elapsedMs == now - m.inputRefillAt
  IN  IF elapsedMs > 0
      THEN [m EXCEPT !.inputAllowance =
                       Min(INPUT_BUCKET_CAPACITY * 1000,
                           m.inputAllowance + elapsedMs * INPUTS_PER_SECOND),
                     !.inputRefillAt = now]
      ELSE m

\* fault injection: a throttle that only stops a bucket in debt
ThrottledBelowZero(m) == m.inputAllowance < 0

\* the bucket is empty: less than one whole token (line 448)
Throttled(m) == m.inputAllowance < 1000

\* fault injection: a sender check that lets every frame through
IsSpoofNever(player, ws) == FALSE

\* the sender check of the input branch (line 437)
IsSpoof(player, ws) == player.ws # ws

\* one more input accepted on ws at the current time
CountAccepted(ws) ==
  [accepted EXCEPT ![ws] =
     MapSet(@, now, IF now \in DOMAIN @ THEN @[now] + 1 ELSE 1)]

\* ws.on('message'), msg.t === 'input'
Input(ws, msg) ==
  LET pid == msg.playerId.v
      bound == ws \in DOMAIN meta /\ meta[ws].roomId # Null
      roomId == meta[ws].roomId
      hasRoom == bound /\ roomId \in DOMAIN rooms
      room == rooms[roomId]
      hasPlayer == hasRoom /\ msg.playerId.k = "str" /\ pid \in DOMAIN room.players
      player == room.players[pid]
      refilled == Refill(meta[ws])
      consumed == [refilled EXCEPT !.inputAllowance = @ - 1000, !.lastInputAt = now]
      steered == IF IsNumber(msg.directionRad)
                 THEN [player EXCEPT !.targetDirectionRad = normalizeAngle(msg.directionRad)]
                 ELSE player
      applied == IF msg.boosting.k = "bool"
                 THEN [steered EXCEPT !.boosting = (msg.boosting.v = 1)]
                 ELSE steered
  IN  /\ Receiving(ws)
      /\ frames' = frames + 1
      /\ sent' = << >>
      /\ IF ~bound
         THEN /\ logged' = << >>
              /\ UNCHANGED << meta, rooms, metrics, accepted >>
         ELSE IF ~hasRoom
         THEN /\ logged' = << >>
              /\ UNCHANGED << meta, rooms, metrics, accepted >>
         ELSE IF msg.playerId.k # "str"
         THEN /\ logged' = << >>
              /\ UNCHANGED << meta, rooms, metrics, accepted >>
         ELSE IF ~hasPlayer
         THEN /\ logged' = << >>
              /\ UNCHANGED << meta, rooms, metrics, accepted >>
         ELSE IF IsSpoof(player, ws)
         THEN /\ metrics' = [metrics EXCEPT !.inputSpoofRejected = @ + 1]
              /\ logged' = << LogEntry("player_input_spoof", roomId, pid) >>
              /\ UNCHANGED << meta, rooms, accepted >>
         ELSE IF Throttled(refilled)
         THEN /\ meta' = [meta EXCEPT ![ws] = refilled]
              /\ metrics' = [metrics EXCEPT !.inputThrottled = @ + 1]
              /\ logged' = << LogEntry("player_input_throttled", roomId, pid) >>
              /\ UNCHANGED << rooms, accepted >>
         ELSE IF IsNumber(msg.directionRad) /\ ~IsFinite(msg.directionRad)
         THEN /\ meta' = [meta EXCEPT ![ws] = consumed]
              /\ metrics' = [metrics EXCEPT !.inputInvalid = @ + 1]
              /\ logged' = << LogEntry("player_input_invalid", roomId, pid) >>
              /\ accepted' = CountAccepted(ws)
              /\ UNCHANGED << rooms >>
         ELSE /\ meta' = [meta EXCEPT ![ws] = consumed]
              /\ rooms' = [rooms EXCEPT ![roomId].players[pid] = applied]
              /\ logged' = << LogEntry("player_input", roomId, pid) >>
              /\ accepted' = CountAccepted(ws)
              /\ UNCHANGED << metrics >>
      /\ UNCHANGED << adminVars, now, wsState, closeCode, defaultConfig, nextRoomId, nextPlayerId,
                      bannedNames, timerVars, requests, firstPingAt, tickLog,
                      stateLog >>

\* ws.on('message'), msg.t === 'pong'
Pong(ws, pingId) ==
  /\ Receiving(ws)
  /\ frames' = frames + 1
  /\ logged' = << >>
  /\ IF IsNumber(pingId)
     THEN IF /\ ws \in DOMAIN meta
             /\ pingId.k = "num"
             /\ meta[ws].lastPingId = pingId.v
             /\ meta[ws].lastPingSentAt # Null
          THEN /\ meta' = [meta EXCEPT ![ws].rttMs = now - meta[ws].lastPingSentAt,
                                       ![ws].lastPongAt = now]
               /\ sent' = << Frame(ws, "latency", now - meta[ws].lastPingSentAt, 0) >>
          ELSE /\ sent' = << >>
               /\ UNCHANGED meta
     ELSE \* not the pong branch, nor any other: falls through to the tail
          /\ meta' = TouchLastMessage(ws)
          /\ sent' = << >>
  /\ UNCHANGED << adminVars, now, wsState, closeCode, rooms, defaultConfig, nextRoomId,
                  nextPlayerId, bannedNames, metrics, timerVars, requests, histVars >>

\* ws.on('message'), msg.t === 'ping'
PingFrame(ws) ==
  /\ Receiving(ws)
  /\ frames' = frames + 1
  /\ sent' = << Frame(ws, "pong", now, Null) >>
  /\ logged' = << >>
  /\ UNCHANGED << adminVars, now, wsState, closeCode, meta, rooms, defaultConfig, nextRoomId,
                  nextPlayerId, bannedNames, metrics, timerVars, requests, histVars >>

\* ws.on('message'), a frame of any other type, or one JSON.parse rejects
OtherFrame(ws, kind) ==
  /\ Receiving(ws)
  /\ kind \in {"unknown", "malformed"}
  /\ frames' = frames + 1
  /\ meta' = TouchLastMessage(ws)
  /\ sent' = << >>
  /\ logged' = << >>
  /\ UNCHANGED << adminVars, now, wsState, closeCode, rooms, defaultConfig, nextRoomId,
                  nextPlayerId, bannedNames, metrics, timerVars, requests, histVars >>

\* ws.on('close'): the socket's close event, after a close() of the server or
\* on the client's own disconnect
CloseEvent(ws) ==
  LET bound == ws \in DOMAIN meta /\ meta[ws].roomId # Null
      roomId == meta[ws].roomId
      hasRoom == bound /\ roomId \in DOMAIN rooms
      room == rooms[roomId]
      kept == { p \in DOMAIN room.players : room.players[p].ws # ws }
      left == [room EXCEPT !.players = [p \in kept |-> room.players[p]],
                           !.emptySince = IF kept = {} THEN now ELSE room.emptySince]
  IN  /\ Receiving(ws)
      /\ wsState' = [wsState EXCEPT ![ws] = "closed"]
      /\ closeCode' = [closeCode EXCEPT ![ws] = IF wsState[ws] = "open" THEN 1005 ELSE @]
      /\ rooms' = IF hasRoom THEN [rooms EXCEPT ![roomId] = left] ELSE rooms
      /\ logged' = IF hasRoom THEN << LogEntry("player_leave", roomId, 0) >> ELSE << >>
      /\ meta' = MapDelete(meta, ws)
      /\ sent' = << >>
      /\ UNCHANGED << adminVars, now, defaultConfig, nextRoomId, nextPlayerId, bannedNames,
                      metrics, timerVars, frames, requests, histVars >>

\* ------------------------------------------------------------ heartbeat
\* wss.clients: the sockets that are connected and whose close event is pending
Clients == { w \in Sockets : wsState[w] \in {"open", "closing"} }

\* server-initiated ping loop, setInterval(..., 2000)
PingLoop ==
  LET pinged == { w \in Clients : wsState[w] = "open" /\ w \in DOMAIN meta }
  IN  /\ now >= nextPingAt
      /\ nextPingAt' = now + PING_PERIOD_MS
      /\ meta' = [w \in DOMAIN meta |->
                    IF w \in pinged
                    THEN [meta[w] EXCEPT !.lastPingId = now, !.lastPingSentAt = now]
                    ELSE meta[w]]
      /\ sent' = [i \in 1..Cardinality(pinged) |->
                    Frame(KeysInOrderOfSockets(pinged)[i], "ping", now, 0)]
      /\ firstPingAt' = [w \in Sockets |->
                           IF w \in pinged /\ firstPingAt[w] = Null THEN now
                           ELSE firstPingAt[w]]
      /\ logged' = << >>
      /\ UNCHANGED << adminVars, now, wsState, closeCode, rooms, defaultConfig, nextRoomId,
                      nextPlayerId, bannedNames, metrics, nextSweepAt, nextTickAt,
                      nextBroadcastAt, frames, requests, accepted, tickLog, stateLog >>

\* the time without a pong the sweep computes for a session (lines 525-528)
NoPongFor(m) ==
  IF m.lastPingSentAt > 0
  THEN IF m.lastPongAt > 0 THEN now - m.lastPongAt ELSE now - m.lastPingSentAt
  ELSE 0

\* the time without a message the sweep computes for a session (line 529)
IdleFor(m) == now - (IF m.lastMessageAt = Null THEN 0 ELSE m.lastMessageAt)

\* the sweep's verdict on a session (line 530)
Inactive(m) == NoPongFor(m) > NO_PONG_LIMIT_MS \/ IdleFor(m) > IDLE_LIMIT_MS

\* disconnect inactive or unresponsive clients, setInterval(..., 5000)
IdleSweep ==
  LET evicted == { w \in Clients : w \in DOMAIN meta /\ Inactive(meta[w]) }
  IN  /\ now >= nextSweepAt
      /\ nextSweepAt' = now + SWEEP_PERIOD_MS
      /\ wsState' = CloseSockets(wsState, evicted)
      /\ closeCode' = CloseCodes(closeCode, wsState, evicted, 4002)
      /\ meta' = [w \in DOMAIN meta \ evicted |-> meta[w]]
      /\ sent' = << >>
      /\ logged' = << >>
      /\ UNCHANGED << adminVars, now, rooms, defaultConfig, nextRoomId, nextPlayerId,
                      bannedNames, metrics, nextPingAt, nextTickAt, nextBroadcastAt, frames,
                      requests, histVars >>

\* Date.now() moves on by d milliseconds (up to the horizon limit)
AdvanceClock(d, limit) ==
  /\ d > 0
  /\ now + d <= limit
  /\ now' = now + d
  /\ UNCHANGED << adminVars, wsState, closeCode, meta, rooms, defaultConfig, nextRoomId,
                  nextPlayerId, bannedNames, metrics, timerVars, sent, logged,
                  frames, requests, histVars >>

\* ------------------------------------------------------ simulation tick
\* a food item; droppedAt is history: the time of the death that dropped it,
\* Null for every other food
Food(pos, value) == [position |-> pos, value |-> value, droppedAt |-> Null]

\* jitter(n) = (Math.random() - 0.5) * n, for a draw r per mille
jitter(r, n) == ((r - 500) * n) \div 1000

\* Math.hypot of the difference of two points, in tenths of a unit
Hypot10(p, q) == Isqrt(100 * distanceSquared(p, q))

\* trimBodyToLength: the loop from JavaScript index i - 1 (the sequence is
\* 1-based here) down to 1, total being the arc length so far, in tenths
RECURSIVE TrimFrom(_, _, _, _)
TrimFrom(points, targetLength, i, total) ==
  IF i <= 1 THEN points
  ELSE LET seg == Hypot10(points[i], points[i - 1])
       IN  IF total + seg > targetLength
           THEN SubSeq(points, i - 1, Len(points))
           ELSE TrimFrom(points, targetLength, i - 1, total + seg)

trimBodyToLength(points, targetLength) ==
  IF Len(points) <= 1 THEN points
  ELSE TrimFrom(points, targetLength, Len(points), 0)

\* computeMaxTurnRate(score) * dt, in degrees
MaxTurn(score) == (computeMaxTurnRate(score) * 9) \div 3142

Clamp(v, mapSize) == Max(-mapSize, Min(mapSize, v))

\* the boost cost of one tick, in tenths (line 572)
BoostDecay(score) == Max(1, Min(15, (score * 2) \div 1000))

\* the motion of one player in one tick (lines 562-572)
MovePlayer(player, cfg) ==
  LET dir == rotateTowards(player.directionRad, player.targetDirectionRad,
                           MaxTurn(player.score))
      speed == computeSpeed(player.score, player.boosting)
      dx == RoundDiv(Cos1000(dir) * speed, 10000 * TICK_RATE)
      dy == RoundDiv(Sin1000(dir) * speed, 10000 * TICK_RATE)
      pos == << Clamp(player.position[1] + dx, cfg.mapSize),
                Clamp(player.position[2] + dy, cfg.mapSize) >>
      body == trimBodyToLength(Append(player.bodyPoints, pos),
                               computeTargetLength(player.score, cfg))
      boosted == player.boosting /\ player.score > 10
  IN  [player EXCEPT !.directionRad = dir, !.position = pos, !.bodyPoints = body,
                     !.score = IF boosted THEN @ - BoostDecay(@) ELSE @]

\* the motion phase over the players ids[i..]; r is the tick's random draw
RECURSIVE MotionPhase(_, _, _, _)
MotionPhase(room, ids, i, r) ==
  IF i > Len(ids) THEN room
  ELSE LET p == room.players[ids[i]]
           moved == MovePlayer(p, room.config)
           pellet == Food(<< moved.position[1] + jitter(r, 8),
                             moved.position[2] + jitter(r, 8) >>, 5)
           drops == p.boosting /\ p.score > 10 /\ r < 300
       IN  MotionPhase([room EXCEPT !.players[ids[i]] = moved,
                                    !.foods = IF drops THEN Append(@, pellet) ELSE @],
                       ids, i + 1, r)

computeSuctionRadius(score, cfg) ==
  LET radiusMult == Max(0, cfg.suctionRadiusMultiplier)
      base == Min(6000, 1200 + Isqrt(1960 * Max(0, score)))
  IN  IF radiusMult <= 0 THEN 0 ELSE Min(20000, (base * radiusMult) \div 10)

\* dx*dx + dy*dy <= r*r for r in tenths of a unit (dx, dy in units)
WithinRadius(dx, dy, r10) ==
  /\ Abs(dx) * 10 <= r10
  /\ Abs(dy) * 10 <= r10
  /\ (dx * dx + dy * dy) * 100 <= r10 * r10

\* fault injection: a scan without the break of line 594: every player in
\* reach of the food gains its value
RECURSIVE FoodScanNoBreak(_, _, _, _, _)
FoodScanNoBreak(food, players, ids, i, cfg) ==
  IF i > Len(ids) THEN [food |-> food, players |-> players, eaten |-> FALSE]
  ELSE LET player == players[ids[i]]
           dx == food.position[1] - player.position[1]
           dy == food.position[2] - player.position[2]
           gain == (food.value * Max(0, cfg.foodValueMultiplier)) \div 10
           fed == [players EXCEPT ![ids[i]].score = @ + gain]
       IN  IF WithinRadius(dx, dy, computeRadius(player.score, cfg))
           THEN [FoodScanNoBreak(food, fed, ids, i + 1, cfg) EXCEPT !.eaten = TRUE]
           ELSE FoodScanNoBreak(food, players, ids, i + 1, cfg)

\* one food against the players ids[i..] (lines 583-605): the food as pulled so
\* far, the players as fed so far; eaten when some player ate it
RECURSIVE FoodScan(_, _, _, _, _)
FoodScan(food, players, ids, i, cfg) ==
  IF i > Len(ids) THEN [food |-> food, players |-> players, eaten |-> FALSE]
  ELSE LET player == players[ids[i]]
           bodyR == computeRadius(player.score, cfg)
           suckR == computeSuctionRadius(player.score, cfg)
           dx == food.position[1] - player.position[1]
           dy == food.position[2] - player.position[2]
           gain == (food.value * Max(0, cfg.foodValueMultiplier)) \div 10
           d == Max(10, Isqrt(100 * (dx * dx + dy * dy)))
           basePull == Min(2200, 1400 + Isqrt(360 * Max(0, player.score)))
           pull == (basePull * Max(0, cfg.suctionStrengthMultiplier)) \div 10
           pulled == [food EXCEPT !.position =
                        << @[1] - RoundDiv(dx * pull, d * TICK_RATE),
                           @[2] - RoundDiv(dy * pull, d * TICK_RATE) >>]
       IN  IF WithinRadius(dx, dy, bodyR)
           THEN [food |-> food,
                 players |-> [players EXCEPT ![ids[i]].score = @ + gain],
                 eaten |-> TRUE]
           ELSE IF suckR > 0 /\ WithinRadius(dx, dy, suckR) /\ pull > 0
                THEN FoodScan(pulled, players, ids, i + 1, cfg)
                ELSE FoodScan(food, players, ids, i + 1, cfg)

\* food consumption + suction over the foods foods[k..] (lines 580-608)
RECURSIVE FoodPhase(_, _, _, _, _)
FoodPhase(room, foods, k, ids, toKeep) ==
  IF k > Len(foods) THEN [room EXCEPT !.foods = toKeep]
  ELSE LET res == FoodScan(foods[k], room.players, ids, 1, room.config)
       IN  FoodPhase([room EXCEPT !.players = res.players], foods, k + 1, ids,
                     IF res.eaten THEN toKeep ELSE Append(toKeep, res.food))

\* distPointSeg2(p, a, b) < lim * lim, lim in tenths of a unit: the squared
\* distance of point p to segment ab, compared without leaving the integers
PointSegWithin(p, a, b, lim10) ==
  LET abx == b[1] - a[1]
      aby == b[2] - a[2]
      apx == p[1] - a[1]
      apy == p[2] - a[2]
      ab2 == abx * abx + aby * aby
      dot == apx * abx + apy * aby
      ap2 == apx * apx + apy * apy
      bp2 == distanceSquared(p, b)
      lim2 == lim10 * lim10
  IN  IF ab2 = 0 \/ dot <= 0 THEN ap2 <= (lim2 - 1) \div 100
      ELSE IF dot >= ab2 THEN bp2 <= (lim2 - 1) \div 100
      ELSE (ap2 * ab2 - dot * dot) <= (lim2 * ab2 - 1) \div 100

\* head of a against the body segments of b (lines 635-641), from index k
RECURSIVE HitsBody(_, _, _, _)
HitsBody(a, b, cfg, k) ==
  LET n == Len(b.bodyPoints)
      aR == computeRadius(a.score, cfg)
      bR == computeRadius(b.score, cfg)
      bodyThickness == Max(30, (bR * 6) \div 10)
      p1 == b.bodyPoints[k + 1]
      p2 == b.bodyPoints[Min(k + 1, n - 13) + 1]
  IN  IF k >= n - 12 THEN FALSE
      ELSE IF PointSegWithin(a.position, p1, p2, aR + bodyThickness) THEN TRUE
      ELSE HitsBody(a, b, cfg, k + 3)

\* the quick reject of a pair (line 633)
FarApart(a, b, cfg) ==
  LET reach == computeRadius(a.score, cfg) + computeRadius(b.score, cfg) + 2000
  IN  distanceSquared(a.position, b.position) > (reach * reach) \div 100

\* the head-to-head test of a pair (lines 644-646)
HeadToHead(a, b, cfg) ==
  LET sum == computeRadius(a.score, cfg) + computeRadius(b.score, cfg)
  IN  distanceSquared(a.position, b.position) <= (sum * sum - 1) \div 200

\* whom a head-to-head of a (outer loop) and b (inner loop) kills (lines 647-649)
HeadToHeadLoser(a, b) ==
  IF a.score < b.score THEN a.id
  ELSE IF b.score < a.score THEN b.id
  ELSE a.id

\* fault injection: a scan that also checks a player against itself
SamePlayerNever(i, j) == FALSE

\* the scan skips the pair of a player with itself (line 628)
SamePlayer(i, j) == i = j

InSeq(x, s) == \E n \in 1..Len(s) : s[n] = x

\* the inner loop over b = arr[j..] for a = arr[i] (lines 627-651)
RECURSIVE CollideInner(_, _, _, _, _)
CollideInner(arr, i, j, cfg, deaths) ==
  IF j > Len(arr) THEN deaths
  ELSE IF SamePlayer(i, j) THEN CollideInner(arr, i, j + 1, cfg, deaths)
  ELSE LET a == arr[i]
           b == arr[j]
       IN  IF FarApart(a, b, cfg) THEN CollideInner(arr, i, j + 1, cfg, deaths)
           ELSE IF HitsBody(a, b, cfg, 0) THEN Append(deaths, a.id)
           ELSE IF InSeq(a.id, deaths) THEN deaths
           ELSE IF HeadToHead(a, b, cfg)
                THEN CollideInner(arr, i, j + 1, cfg,
                                  Append(deaths, HeadToHeadLoser(a, b)))
                ELSE CollideInner(arr, i, j + 1, cfg, deaths)

\* the outer loop over a = arr[i..] (lines 622-652): the deaths list
RECURSIVE CollideOuter(_, _, _, _)
CollideOuter(arr, i, cfg, deaths) ==
  IF i > Len(arr) THEN deaths
  ELSE IF InSeq(arr[i].id, deaths) THEN CollideOuter(arr, i + 1, cfg, deaths)
  ELSE CollideOuter(arr, i + 1, cfg, CollideInner(arr, i, 1, cfg, deaths))

\* collision detection of a room: the ids to die, in the order found
Collisions(room) ==
  LET ids == KeysInOrder(DOMAIN room.players)
      playersArr == [n \in 1..Len(ids) |-> room.players[ids[n]]]
  IN  CollideOuter(playersArr, 1, room.config, << >>)

\* fault injection: death processing that stops after the first death
UniqueFirstOnly(s, n, out) == IF Len(s) = 0 THEN << >> ELSE << s[1] >>

\* Array.from(new Set(deaths)): first occurrences, in order
RECURSIVE Unique(_, _, _)
Unique(s, n, out) ==
  IF n > Len(s) THEN out
  ELSE Unique(s, n + 1, IF InSeq(s[n], out) THEN out ELSE Append(out, s[n]))

\* the remains of a dead player: one food for every 4th body point (lines 659-663)
DeathDrops(p, r) ==
  LET n == Len(p.bodyPoints)
      val == Max(5, p.score \div Max(10, n))
  IN  [t \in 1..((n + 3) \div 4) |->
         [Food(<< p.bodyPoints[4 * (t - 1) + 1][1] + jitter(r, 12),
                  p.bodyPoints[4 * (t - 1) + 1][2] + jitter(r, 12) >>, val)
            EXCEPT !.droppedAt = now]]

\* death processing over unique[n..] (lines 656-672). acc carries the room, the
\* ClientMeta map and the frames sent so far.
RECURSIVE DeathPhase(_, _, _, _)
DeathPhase(acc, unique, n, r) ==
  IF n > Len(unique) THEN acc
  ELSE LET id == unique[n]
           room == acc.room
       IN  IF id \notin DOMAIN room.players THEN DeathPhase(acc, unique, n + 1, r)
           ELSE LET p == room.players[id]
                    rest == MapDelete(room.players, id)
                    after == [room EXCEPT !.foods = @ \o DeathDrops(p, r),
                                          !.players = rest,
                                          !.emptySince = IF DOMAIN rest = {} THEN now ELSE @]
                    unbound == IF p.ws \in DOMAIN acc.meta
                               THEN [acc.meta EXCEPT ![p.ws].roomId = Null,
                                                     ![p.ws].lastInputAt = Null]
                               ELSE acc.meta
                IN  DeathPhase([room |-> after, meta |-> unbound,
                                sent |-> Append(acc.sent, Frame(p.ws, "dead", 0, 0))],
                               unique, n + 1, r)

\* the cluster spawned when the room is short of food (lines 676-686)
Cluster(cfg, r) ==
  LET center == << RandomCoord(r, cfg.mapSize), RandomCoord(r, cfg.mapSize) >>
      clusterSize == 15 + (r * 40) \div 1000
      angle == (r * 2 * Pi) \div 1000
      radius == (r * 80) \div 1000 + 20
      pos == << center[1] + (Cos1000(angle) * radius) \div 1000 + jitter(r, 8),
                center[2] + (Sin1000(angle) * radius) \div 1000 + jitter(r, 8) >>
  IN  [n \in 1..clusterSize |-> Food(pos, 10 + (r * 30) \div 1000)]

\* the count of foods within 1500 units of p, stopping at target (lines 690-696)
RECURSIVE NearCount(_, _, _, _, _)
NearCount(foods, k, pos, target, near) ==
  IF k > Len(foods) THEN near
  ELSE LET dx == foods[k].position[1] - pos[1]
           dy == foods[k].position[2] - pos[2]
       IN  IF WithinRadius(dx, dy, 15000)
           THEN IF near + 1 >= target THEN near + 1
                ELSE NearCount(foods, k + 1, pos, target, near + 1)
           ELSE NearCount(foods, k + 1, pos, target, near)

\* the foods topped up around one player (lines 697-709)
TopUp(foods, p, cfg, r) ==
  LET perPlayerFoodTarget == Max(0, cfg.foodNearPlayerTarget)
      near == NearCount(foods, 1, p.position, perPlayerFoodTarget, 0)
      need == perPlayerFoodTarget - near
      angle == (r * 2 * Pi) \div 1000
      dist == 900 + (r * 600) \div 1000
      pos == << Clamp(p.position[1] + (Cos1000(angle) * dist) \div 1000 + jitter(r, 40),
                      cfg.mapSize),
                Clamp(p.position[2] + (Sin1000(angle) * dist) \div 1000 + jitter(r, 40),
                      cfg.mapSize) >>
  IN  IF near < perPlayerFoodTarget THEN [n \in 1..need |-> Food(pos, 10)] ELSE << >>

RECURSIVE TopUpPhase(_, _, _, _)
TopUpPhase(room, ids, i, r) ==
  IF i > Len(ids) THEN room
  ELSE TopUpPhase([room EXCEPT !.foods = @ \o TopUp(@, room.players[ids[i]], room.config, r)],
                  ids, i + 1, r)

\* food replenishment (lines 675-710)
Replenish(room, r) ==
  LET desiredFoodCount == (room.config.foodCoveragePercent * 2000) \div 100
      clustered == IF Len(room.foods) < desiredFoodCount
                   THEN [room EXCEPT !.foods = @ \o Cluster(room.config, r)]
                   ELSE room
  IN  TopUpPhase(clustered, KeysInOrder(DOMAIN clustered.players), 1, r)

\* fault injection: a close of a missing room that still logs room_close
RoomNotFoundLogged(st, id) ==
  [st EXCEPT !.logged = Append(@, LogEntry("room_close:manual", id, 0))]

\* closeRoom when the room does not exist (line 194): nothing is touched
RoomNotFound(st, id) == st

\* the value closeRoom returns (lines 194 and 209)
closeRoomReturns(st, id) == id \in DOMAIN st.rooms

\* the room_closed frames closeRoom sends to the spectators S of room id, in
\* the order of the set (lines 202-203)
RECURSIVE RoomClosedFrames(_, _)
RoomClosedFrames(S, id) ==
  IF S = {} THEN << >>
  ELSE LET a == CHOOSE x \in S : TRUE
       IN  << Frame(a, "room_closed", id, 0) >> \o RoomClosedFrames(S \ {a}, id)

\* s.close(1000, 'room closed') on the spectators S (line 204)
CloseSpectators(state, S) ==
  [a \in AdminSockets |-> IF a \in S /\ state[a] = "open" THEN "closing" ELSE state[a]]

\* RoomManager.closeRoom on the state st = [rooms, wsState, closeCode,
\* adminState, sent, logged]: the state after it (unchanged when the room does
\* not exist)
closeRoom(st, id, reason) ==
  IF id \notin DOMAIN st.rooms THEN RoomNotFound(st, id)
  ELSE LET room == st.rooms[id]
           socks == { room.players[p].ws : p \in DOMAIN room.players }
       IN  [ rooms |-> MapDelete(st.rooms, id),
             wsState |-> CloseSockets(st.wsState, socks),
             closeCode |-> CloseCodes(st.closeCode, st.wsState, socks, 1000),
             adminState |-> CloseSpectators(st.adminState, room.spectators),
             sent |-> st.sent \o RoomClosedFrames(room.spectators, id),
             logged |-> Append(st.logged, LogEntry("room_close:" \o reason, id, 0)) ]

\* what the collision scan of a room saw: each player's id, score, head and
\* body size at the scan, the foods the food phase had kept, and the deaths
\* list it produced
ScanRecord(room, deaths) ==
  [ players |-> [p \in DOMAIN room.players |->
                   [ score |-> room.players[p].score,
                     position |-> room.players[p].position,
                     bodyLen |-> Len(room.players[p].bodyPoints) ]],
    foods |-> room.foods,
    config |-> room.config,
    deaths |-> deaths ]

\* The physics of one populated room in one tick (lines 558-710), phase by
\* phase: each operator receives what the phases before it produced.
\* Death processing, food replenishment and the record of the scan.
SimulateDeaths(acc, id, r, fed, deaths, buried) ==
  [acc EXCEPT !.rooms = [@ EXCEPT ![id] = Replenish(buried.room, r)],
              !.meta = buried.meta,
              !.sent = buried.sent,
              !.tickLog = MapSet(@, id, ScanRecord(fed, deaths))]

\* collision detection on the room as fed
SimulateCollisions(acc, id, r, fed, deaths) ==
  SimulateDeaths(acc, id, r, fed, deaths,
                 DeathPhase([room |-> fed, meta |-> acc.meta, sent |-> acc.sent],
                            Unique(deaths, 1, << >>), 1, r))

\* food consumption on the room as moved
SimulateFood(acc, id, r, fed) == SimulateCollisions(acc, id, r, fed, Collisions(fed))

\* motion of the players ids of the room
SimulateMotion(acc, id, r, ids, moved) ==
  SimulateFood(acc, id, r, FoodPhase(moved, moved.foods, 1, ids, << >>))

SimulatePlayers(acc, id, r, ids) ==
  SimulateMotion(acc, id, r, ids,
                 MotionPhase([acc.rooms[id] EXCEPT !.emptySince = Null], ids, 1, r))

Simulate(acc, id, r) ==
  SimulatePlayers(acc, id, r, KeysInOrder(DOMAIN acc.rooms[id].players))

\* fault injection: an empty-room step that applies a ttl of 0 as well
EmptyRoomExpiredAnyTtl(room) ==
  room.emptySince > 0 /\ now - room.emptySince >= Max(0, room.config.emptyRoomTtlSeconds) * 1000

\* fault injection: an empty-room step that never finds the ttl elapsed
EmptyRoomExpiredNever(room) == FALSE

\* the empty-room step of the tick (lines 544-551)
EmptyRoomExpired(room) ==
  LET emptySince == IF room.emptySince > 0 THEN room.emptySince ELSE now
      ttlSec == Max(0, room.config.emptyRoomTtlSeconds)
  IN  ttlSec > 0 /\ now - emptySince >= ttlSec * 1000

\* lines 548-549: the room is counted and closed
ExpireRoom(acc, closed) ==
  [acc EXCEPT !.rooms = closed.rooms,
              !.wsState = closed.wsState,
              !.closeCode = closed.closeCode,
              !.adminState = closed.adminState,
              !.sent = closed.sent,
              !.logged = closed.logged,
              !.metrics.roomsClosedTimeout = @ + 1]

\* the tick of one room (lines 542-715)
TickRoom(acc, id, r) ==
  IF acc.rooms[id].isClosed THEN acc
  ELSE IF DOMAIN acc.rooms[id].players = {}
  THEN IF EmptyRoomExpired(acc.rooms[id])
       THEN ExpireRoom(acc, closeRoom(acc, id, "timeout_empty"))
       ELSE [acc EXCEPT !.rooms[id].emptySince = IF @ > 0 THEN @ ELSE now]
  ELSE Simulate(acc, id, r)

RECURSIVE TickRooms(_, _, _, _)
TickRooms(acc, ids, n, r) ==
  IF n > Len(ids) THEN acc
  ELSE TickRooms(TickRoom(acc, ids[n], r), ids, n + 1, r)

\* the state the tick leaves, end being what its loop over the rooms produced
TickEnd(end) ==
  /\ nextTickAt' = now + 1000 \div TICK_RATE
  /\ rooms' = end.rooms
  /\ meta' = end.meta
  /\ wsState' = end.wsState
  /\ closeCode' = end.closeCode
  /\ adminState' = end.adminState
  /\ metrics' = end.metrics
  /\ sent' = end.sent
  /\ logged' = end.logged
  /\ tickLog' = end.tickLog
  /\ UNCHANGED << adminMeta, now, defaultConfig, nextRoomId, nextPlayerId, bannedNames,
                  nextPingAt, nextSweepAt, nextBroadcastAt, frames, requests, accepted,
                  firstPingAt, stateLog >>

\* the simulation loop, setInterval(..., 1000 / TICK_RATE); r is the value the
\* tick's Math.random() calls return
Tick(r) ==
  /\ now >= nextTickAt
  /\ TickEnd(TickRooms([ rooms |-> rooms, meta |-> meta, wsState |-> wsState,
                         closeCode |-> closeCode, adminState |-> adminState,
                         metrics |-> metrics, sent |-> << >>, logged |-> << >>, tickLog |-> EmptyMap ],
                       KeysInOrder(DOMAIN rooms), 1, r))

\* ------------------------------------------------------- broadcast
viewR == 1800

viewPlayersR == 2600

VisibleFoodsCap == 250

VisiblePlayersCap == 40

\* fault injection: a food filter that looks one unit too far
TooFar(food, pos) == distanceSquared(food.position, pos) <= (viewR + 1) * (viewR + 1)

\* dx*dx + dy*dy <= r2
FoodInView(food, pos) == distanceSquared(food.position, pos) <= viewR * viewR

\* one iteration of the visibleFoods loop: acc.out is the list so far and
\* acc.done tells that the loop has hit its break
VisitFood(acc, food, pos) ==
  IF acc.done THEN acc
  ELSE IF FoodInView(food, pos)
       THEN LET pushed == Append(acc.out, food)
            IN  [out |-> pushed, done |-> Len(pushed) >= VisibleFoodsCap]
       ELSE acc

\* the iterations for foods[lo..hi] in list order, the first half feeding the
\* second (halving keeps the evaluation shallow on long lists)
RECURSIVE ScanFoods(_, _, _, _, _)
ScanFoods(foods, pos, lo, hi, acc) ==
  IF lo > hi THEN acc
  ELSE IF lo = hi THEN VisitFood(acc, foods[lo], pos)
  ELSE LET mid == (lo + hi) \div 2
           half == ScanFoods(foods, pos, lo, mid, acc)
       IN  IF half.done THEN half
           ELSE ScanFoods(foods, pos, mid + 1, hi, half)

visibleFoods(room, recipient) ==
  ScanFoods(room.foods, room.players[recipient].position, 1, Len(room.foods),
            [out |-> << >>, done |-> FALSE]).out

PayloadEntry(player) == [id |-> player.id, position |-> player.position]

\* the playersPayload loop from the i-th player of the room's map on: the
\* recipient is pushed where the iteration meets it, the others when in view,
\* and the loop stops once a player in view fills the list
RECURSIVE PayloadFrom(_, _, _, _, _)
PayloadFrom(players, order, recipient, i, out) ==
  IF i > Len(order) THEN out
  ELSE LET p == players[order[i]]
       IN  IF p.id = recipient
           THEN PayloadFrom(players, order, recipient, i + 1, Append(out, PayloadEntry(p)))
           ELSE IF distanceSquared(p.position, players[recipient].position)
                     <= viewPlayersR * viewPlayersR
                THEN LET pushed == Append(out, PayloadEntry(p))
                     IN  IF Len(pushed) >= VisiblePlayersCap THEN pushed
                         ELSE PayloadFrom(players, order, recipient, i + 1, pushed)
                ELSE PayloadFrom(players, order, recipient, i + 1, out)

playersPayload(room, recipient) ==
  PayloadFrom(room.players, KeysInOrder(DOMAIN room.players), recipient, 1, << >>)

\* fault injection: a state frame stamped with a clock that runs backwards
StateFrameBackdated(id, room, recipient) ==
  [ to |-> room.players[recipient].ws, t |-> "state", roomId |-> id,
    players |-> playersPayload(room, recipient),
    foods |-> visibleFoods(room, recipient),
    mapSize |-> room.config.mapSize, serverNow |-> 2 * StartTime - now ]

\* the state frame of one recipient; the leaderboard, selfBody and minimap
\* fields of the payload are left out
StateFrame(id, room, recipient) ==
  [ to |-> room.players[recipient].ws, t |-> "state", roomId |-> id,
    players |-> playersPayload(room, recipient),
    foods |-> visibleFoods(room, recipient),
    mapSize |-> room.config.mapSize, serverNow |-> now ]

\* fault injection: a recipient loop without the readyState test
RecipientsAnyState(room) == KeysInOrder(DOMAIN room.players)

\* the recipients of a room, in the order of its map: players whose socket is open
Recipients(room) ==
  SelectSeq(KeysInOrder(DOMAIN room.players),
            LAMBDA p : wsState[room.players[p].ws] = "open")

RECURSIVE RoomFrames(_, _)
RoomFrames(order, i) ==
  IF i > Len(order) THEN << >>
  ELSE LET id == order[i]
           room == rooms[id]
           to == Recipients(room)
       IN  (IF room.isClosed THEN << >>
            ELSE [n \in 1..Len(to) |-> StateFrame(id, room, to[n])])
           \o RoomFrames(order, i + 1)

\* history: what the frames of out add to the state log of socket w
RECURSIVE Delivered(_, _, _)
Delivered(out, w, i) ==
  IF i > Len(out) THEN << >>
  ELSE (IF out[i].to = w
        THEN << [ serverNow |-> out[i].serverNow, roomId |-> out[i].roomId,
                  playerId |-> CHOOSE p \in DOMAIN rooms[out[i].roomId].players :
                                 rooms[out[i].roomId].players[p].ws = w ] >>
        ELSE << >>) \o Delivered(out, w, i + 1)

\* room.minimapSnapshot and room.lastBroadcastAt after the broadcast
Broadcasted(room) ==
  LET order == KeysInOrder(DOMAIN room.players)
      refresh == ~room.minimapSnapshot.taken
                 \/ now - room.minimapSnapshotAt >= MINIMAP_REFRESH_MS
  IN  IF room.isClosed THEN room
      ELSE [room EXCEPT
              !.lastBroadcastAt = now,
              !.minimapSnapshotAt = IF refresh THEN now ELSE @,
              !.minimapSnapshot =
                 IF refresh
                 THEN [taken |-> TRUE,
                       players |-> [n \in 1..Len(order) |->
                                      PayloadEntry(room.players[order[n]])]]
                 ELSE @]

\* the snapshot loop, setInterval(..., 1000 / BROADCAST_RATE)
Broadcast ==
  LET out == RoomFrames(KeysInOrder(DOMAIN rooms), 1)
  IN  /\ now >= nextBroadcastAt
      /\ nextBroadcastAt' = now + 1000 \div BROADCAST_RATE
      /\ rooms' = [id \in DOMAIN rooms |-> Broadcasted(rooms[id])]
      /\ sent' = out
      /\ stateLog' = [w \in Sockets |-> stateLog[w] \o Delivered(out, w, 1)]
      /\ logged' = << >>
      /\ UNCHANGED << adminVars, now, wsState, closeCode, meta, defaultConfig, nextRoomId,
                      nextPlayerId, bannedNames, metrics, nextPingAt, nextSweepAt,
                      nextTickAt, frames, requests, accepted, firstPingAt, tickLog >>

\* ------------------------------------------------------- admin endpoints
\* RoomConfigSchema: the range zod accepts for a key (multipliers in tenths)
SchemaRange(key) ==
  CASE key = "mapSize" -> << 1000, 20000 >>
    [] key = "maxPlayers" -> << 2, 500 >>
    [] key = "foodCoveragePercent" -> << 0, 50 >>
    [] key = "foodSpawnRatePerSecond" -> << 0, 10000 >>
    [] key = "emptyRoomTtlSeconds" -> << 0, 3600 >>
    [] key = "suctionRadiusMultiplier" -> << 0, 50 >>
    [] key = "suctionStrengthMultiplier" -> << 0, 50 >>
    [] key = "foodValueMultiplier" -> << 0, 100 >>
    [] key = "foodNearPlayerTarget" -> << 0, 400 >>
    [] key = "bodyRadiusMultiplier" -> << 0, 100 >>
    [] key = "bodyLengthMultiplier" -> << 0, 100 >>

\* RoomConfigSchema.safeParse({key: value}).success
SchemaAccepts(key, value) ==
  /\ key \in DOMAIN DEFAULT_ROOM_CONFIG
  /\ SchemaRange(key)[1] <= value
  /\ value <= SchemaRange(key)[2]

\* PATCH /admin/rooms/:id/config with the body {key: value}
PatchRoomConfig(id, key, value) ==
  /\ rooms' = IF id \in DOMAIN rooms /\ SchemaAccepts(key, value)
              THEN [rooms EXCEPT ![id].config = Merge(@, key, value)]
              ELSE rooms
  /\ sent' = << >>
  /\ logged' = << >>
  /\ requests' = requests + 1
  /\ UNCHANGED << adminVars, now, wsState, closeCode, meta, defaultConfig, nextRoomId,
                  nextPlayerId, bannedNames, metrics, timerVars, frames, histVars >>

\* PATCH /admin/config/default with the body {key: value}
PatchDefaultConfig(key, value) ==
  /\ defaultConfig' = IF SchemaAccepts(key, value)
                      THEN Merge(defaultConfig, key, value)
                      ELSE defaultConfig
  /\ sent' = << >>
  /\ logged' = << >>
  /\ requests' = requests + 1
  /\ UNCHANGED << adminVars, now, wsState, closeCode, meta, rooms, nextRoomId, nextPlayerId,
                  bannedNames, metrics, timerVars, frames, histVars >>

\* POST /admin/rooms with the body {config: {key: value}}
CreateRoomAdmin(key, value) ==
  /\ nextRoomId <= MaxRooms
  /\ IF SchemaAccepts(key, value)
     THEN /\ rooms' = MapSet(rooms, nextRoomId, NewRoom(Merge(defaultConfig, key, value)))
          /\ nextRoomId' = nextRoomId + 1
          /\ logged' = << LogEntry("room_open", nextRoomId, 0) >>
     ELSE /\ logged' = << >>
          /\ UNCHANGED << rooms, nextRoomId >>
  /\ sent' = << >>
  /\ requests' = requests + 1
  /\ UNCHANGED << adminVars, now, wsState, closeCode, meta, defaultConfig, nextPlayerId,
                  bannedNames, metrics, timerVars, frames, histVars >>

\* DELETE /admin/rooms/:id
CloseRoomAdmin(id) ==
  LET st == [rooms |-> rooms, wsState |-> wsState, closeCode |-> closeCode,
             adminState |-> adminState, sent |-> << >>, logged |-> << >>]
      closed == closeRoom(st, id, "manual")
  IN  /\ rooms' = closed.rooms
      /\ wsState' = closed.wsState
      /\ closeCode' = closed.closeCode
      /\ adminState' = closed.adminState
      /\ logged' = closed.logged
      /\ sent' = closed.sent
      /\ requests' = requests + 1
      /\ UNCHANGED << adminMeta, now, meta, defaultConfig, nextRoomId, nextPlayerId, bannedNames,
                      metrics, timerVars, frames, histVars >>

\* POST /admin/rooms/:id/kick with the body {playerId}
Kick(id, playerId) ==
  LET found == id \in DOMAIN rooms /\ playerId \in DOMAIN rooms[id].players
      player == rooms[id].players[playerId]
  IN  /\ IF found
         THEN /\ wsState' = CloseSockets(wsState, {player.ws})
              /\ closeCode' = CloseCodes(closeCode, wsState, {player.ws}, 4000)
              /\ rooms' = [rooms EXCEPT ![id].players = MapDelete(@, playerId)]
              /\ meta' = IF player.ws \in DOMAIN meta
                         THEN [meta EXCEPT ![player.ws].roomId = Null]
                         ELSE meta
              /\ logged' = << LogEntry("admin_kick", id, playerId) >>
         ELSE /\ logged' = << >>
              /\ UNCHANGED << wsState, closeCode, rooms, meta >>
      /\ sent' = << >>
      /\ requests' = requests + 1
      /\ UNCHANGED << adminVars, now, defaultConfig, nextRoomId, nextPlayerId, bannedNames,
                      metrics, timerVars, frames, histVars >>


\* fault injection: a ban that disconnects nobody
BanMatchesNone(room, name) == {}

\* the players a ban of name disconnects, per room
BanMatches(room, name) ==
  { p \in DOMAIN room.players :
      ToLowerCase(room.players[p].name) = ToLowerCase(name) }

\* POST /admin/ban with the body {name: raw}
Ban(raw) ==
  LET name == Trim(raw)
      hit == [id \in DOMAIN rooms |-> BanMatches(rooms[id], name)]
      socks == UNION { { rooms[id].players[p].ws : p \in hit[id] } : id \in DOMAIN rooms }
      pairs == UNION { { << id, p >> : p \in hit[id] } : id \in DOMAIN rooms }
  IN  /\ IF name = ""
         THEN /\ logged' = << >>
              /\ UNCHANGED << bannedNames, wsState, closeCode, rooms, meta >>
         ELSE /\ bannedNames' = bannedNames \cup {ToLowerCase(name)}
              /\ wsState' = CloseSockets(wsState, socks)
              /\ closeCode' = CloseCodes(closeCode, wsState, socks, 4001)
              /\ rooms' = [id \in DOMAIN rooms |->
                             [rooms[id] EXCEPT !.players =
                                [p \in DOMAIN @ \ hit[id] |-> @[p]]]]
              /\ meta' = [w \in DOMAIN meta |->
                            IF w \in socks THEN [meta[w] EXCEPT !.roomId = Null]
                            ELSE meta[w]]
              /\ logged' = << LogEntry("admin_ban", 0, 0) >>
                             \o [n \in 1..Cardinality(pairs) |->
                                   LogEntry("admin_ban_disconnect", 0, 0)]
      /\ sent' = << >>
      /\ requests' = requests + 1
      /\ UNCHANGED << adminVars, now, defaultConfig, nextRoomId, nextPlayerId, metrics,
                      timerVars, frames, histVars >>

\* ------------------------------------------------------- specifications
\* The input frames clients send: well-formed ones naming each player id, one
\* whose playerId is no string, one whose directionRad is NaN.
InputFrames ==
  { [playerId |-> Str(p), directionRad |-> Num(90), boosting |-> Bool(TRUE)] :
      p \in 1..MaxPlayerIds }
  \cup { [playerId |-> Num(1), directionRad |-> Num(90), boosting |-> Bool(TRUE)],
         [playerId |-> Str(1), directionRad |-> NaN, boosting |-> Absent] }

\* the pingId of a pong frame: the id of the last ping, or a stale one
PongIds(ws) ==
  { Num(0) } \cup (IF ws \in DOMAIN meta /\ meta[ws].lastPingId # Null
                   THEN { Num(meta[ws].lastPingId) } ELSE {})

\* Spec: two player sockets, their frames and the simulation, freely
\* interleaved. Clients send at most MaxFrames frames; every Math.random() call
\* of one handler returns the same draw; the tick never runs early, may run late.
SpecSockets == {"w1", "w2"}

Next ==
  \/ \E ws \in SpecSockets : Connect(ws)
  \/ \E ws \in SpecSockets, msg \in InputFrames : frames < MaxFrames /\ Input(ws, msg)
  \/ \E ws \in SpecSockets, raw \in {"", " Al "}, r \in RandomDraws :
       frames < MaxFrames /\ Hello(ws, raw, r, r, r)
  \/ \E ws \in SpecSockets : CloseEvent(ws)
  \/ \E r \in RandomDraws : Tick(r)
  \/ AdvanceClock(ClockStep, MaxNow)

Spec == Init /\ [][Next]_vars

\* SpecLifecycle: the ways a session ends. As in Node's event loop, the interval
\* callbacks that are due run before the next socket event or admin request,
\* the one that has been due longest first; the admin serves at most
\* MaxRequests requests.
TimerDue == now >= nextPingAt \/ now >= nextSweepAt \/ now >= nextTickAt

DueFirst(at) == at <= nextPingAt /\ at <= nextSweepAt /\ at <= nextTickAt

NextLifecycle ==
  \/ \E ws \in SpecSockets : ~TimerDue /\ Connect(ws)
  \/ \E ws \in SpecSockets, r \in RandomDraws :
       ~TimerDue /\ frames < MaxFrames /\ Hello(ws, " Al ", r, r, r)
  \/ \E ws \in SpecSockets : \E id \in PongIds(ws) :
       ~TimerDue /\ frames < MaxFrames /\ Pong(ws, id)
  \/ \E ws \in SpecSockets : ~TimerDue /\ CloseEvent(ws)
  \/ DueFirst(nextPingAt) /\ PingLoop
  \/ DueFirst(nextSweepAt) /\ IdleSweep
  \/ \E r \in RandomDraws : DueFirst(nextTickAt) /\ Tick(r)
  \/ \E id \in 1..MaxRooms, p \in 1..MaxPlayerIds :
       ~TimerDue /\ requests < MaxRequests /\ Kick(id, p)
  \/ ~TimerDue /\ requests < MaxRequests /\ Ban(" Al ")
  \/ \E id \in 1..MaxRooms : ~TimerDue /\ requests < MaxRequests /\ CloseRoomAdmin(id)
  \/ ~TimerDue /\ AdvanceClock(ClockStep, MaxNow)

SpecLifecycle == Init /\ [][NextLifecycle]_vars

\* SpecBucket: one session and its token bucket. The client sends hello first
\* and its inputs once it has joined, up to MaxBurst frames within one second
\* of the clock.
Joined(ws) == ws \in DOMAIN meta /\ meta[ws].roomId # Null

OwnInputs == { [playerId |-> Str(1), directionRad |-> Num(d), boosting |-> Bool(TRUE)] :
                 d \in {90} }

NextBucket ==
  \/ Connect("w1")
  \/ frames = 0 /\ Hello("w1", "bo", 500, 500, 500)
  \/ \E msg \in OwnInputs : Joined("w1") /\ frames < MaxBurst /\ Input("w1", msg)
  \/ AdvanceClock(BucketStep, StartTime + BucketWindow)

SpecBucket == Init /\ [][NextBucket]_vars

\* SpecPatch: three sessions join while the admin patches maxPlayers, of a room
\* or of the default config, or creates a room.
\* the smallest mapSize the schema accepts
SmallMap == 1000

NextPatch ==
  \/ \E ws \in Sockets : Connect(ws)
  \/ \E ws \in Sockets, r \in RandomDraws :
       frames < MaxFrames /\ Hello(ws, "bo", r, r, r)
  \/ \E ws \in Sockets : CloseEvent(ws)
  \/ \E id \in 1..MaxRooms, value \in {1, 2} :
       requests < MaxRequests /\ PatchRoomConfig(id, "maxPlayers", value)
  \/ \E id \in 1..MaxRooms :
       requests < MaxRequests /\ PatchRoomConfig(id, "mapSize", SmallMap)
  \/ \E value \in {1, 2} :
       requests < MaxRequests /\ PatchDefaultConfig("maxPlayers", value)
  \/ \E value \in {1, 2} :
       requests < MaxRequests /\ CreateRoomAdmin("maxPlayers", value)

SpecPatch == Init /\ [][NextPatch]_vars

\* SpecHeartbeat: one session under the ping loop and the idle sweep, both
\* running on time: the clock moves in steps of HeartbeatStep and stops for
\* every callback that is due, the one that has been due longest first.
HeartbeatDue == now >= nextPingAt \/ now >= nextSweepAt

NextHeartbeat ==
  \/ ~HeartbeatDue /\ Connect("w1")
  \/ ~HeartbeatDue /\ frames < HeartbeatFrames /\ Hello("w1", "bo", 500, 500, 500)
  \/ \E msg \in OwnInputs : ~HeartbeatDue /\ frames < HeartbeatFrames /\ Input("w1", msg)
  \/ \E id \in PongIds("w1") \cup {Absent} :
       ~HeartbeatDue /\ frames < HeartbeatFrames /\ Pong("w1", id)
  \/ ~HeartbeatDue /\ frames < HeartbeatFrames /\ PingFrame("w1")
  \/ \E kind \in {"unknown", "malformed"} :
       ~HeartbeatDue /\ frames < HeartbeatFrames /\ OtherFrame("w1", kind)
  \/ nextPingAt <= nextSweepAt /\ PingLoop
  \/ nextSweepAt <= nextPingAt /\ IdleSweep
  \/ ~HeartbeatDue /\ AdvanceClock(HeartbeatStep, HeartbeatHorizon)

SpecHeartbeat == Init /\ [][NextHeartbeat]_vars

\* ------------------------------------------------------------- properties
\* the players bound to a socket, as << room id, player id >>
PlayersOf(ws) ==
  UNION { { << id, p >> : p \in { q \in DOMAIN rooms[id].players :
                                     rooms[id].players[q].ws = ws } } :
          id \in DOMAIN rooms }

\* the sender of msg is bound to a room that exists and msg names a player by
\* a string id
AddressesPlayer(ws, msg) ==
  /\ Joined(ws)
  /\ meta[ws].roomId \in DOMAIN rooms
  /\ msg.playerId.k = "str"

\* msg passes the anti-spoof rule: it names a player of the sender's room that
\* is bound to the sender
PassesAntiSpoof(ws, msg) ==
  /\ AddressesPlayer(ws, msg)
  /\ msg.playerId.v \in DOMAIN rooms[meta[ws].roomId].players
  /\ rooms[meta[ws].roomId].players[msg.playerId.v].ws = ws

\* C1: an input frame changes a player only when it arrives on the socket the
\* player is bound to: whatever frame a socket sends, every player bound to
\* another socket keeps all its fields (targetDirectionRad and boosting among
\* them), and a frame that changes a player's targetDirectionRad or boosting
\* passed the anti-spoof rule for that player.
C1_AntiSpoof ==
  [][\A ws \in Sockets, msg \in InputFrames :
       Input(ws, msg) =>
         \A id \in DOMAIN rooms : \A p \in DOMAIN rooms[id].players :
           /\ id \in DOMAIN rooms' /\ p \in DOMAIN rooms'[id].players
           /\ rooms[id].players[p].ws # ws
                => rooms'[id].players[p] = rooms[id].players[p]
           /\ (\/ rooms'[id].players[p].targetDirectionRad
                    # rooms[id].players[p].targetDirectionRad
               \/ rooms'[id].players[p].boosting # rooms[id].players[p].boosting)
                => PassesAntiSpoof(ws, msg) /\ msg.playerId.v = p]_vars

\* C1's case: a socket has just sent an input frame naming a player of its room
\* that is bound to the other socket, and the player has not been steered
C1_SpoofAttempted ==
  \E id \in DOMAIN rooms : \E p \in DOMAIN rooms[id].players :
    /\ logged = << LogEntry("player_input_spoof", id, p) >>
    /\ ~rooms[id].players[p].boosting
    /\ \E ws \in Sockets : ws # rooms[id].players[p].ws /\ Joined(ws)
                           /\ meta[ws].roomId = id

\* C2: every input frame that names, by a string id, a player that is not a
\* player of the sender's room bound to the sender (the sender being bound to a
\* room) adds exactly one to inputSpoofRejected and gets no reply.
C2_SpoofAlwaysCounted ==
  [][\A ws \in Sockets, msg \in InputFrames :
       (Input(ws, msg) /\ AddressesPlayer(ws, msg) /\ ~PassesAntiSpoof(ws, msg)) =>
         /\ metrics'.inputSpoofRejected = metrics.inputSpoofRejected + 1
         /\ sent' = << >>]_vars

\* C5: across all rooms at most one player references any socket.
C5_OnePlayerPerSession == \A ws \in Sockets : Cardinality(PlayersOf(ws)) <= 1

\* C5's case: a session that was kicked has sent hello again on its closing
\* socket and is bound to a new player
C5_RejoinedAfterKick ==
  \E ws \in Sockets :
    /\ wsState[ws] = "closing"
    /\ closeCode[ws] = 4000
    /\ Cardinality(PlayersOf(ws)) = 1

\* C7: once the close event of a session has been processed, no room holds a
\* player bound to that session and the session itself is gone.
C7_ClosedSessionFreed ==
  \A ws \in Sockets :
    wsState[ws] = "closed" => PlayersOf(ws) = {} /\ ws \notin DOMAIN meta

\* C10: what the collision scan of the last tick decided for two players alone
\* in a room, head to head and with bodies too short for a body check: with
\* unequal scores only the lower one dies, with equal scores exactly one dies.
C10_HeadToHeadVerdict ==
  \A id \in DOMAIN tickLog :
    LET rec == tickLog[id]
        dead == { rec.deaths[n] : n \in 1..Len(rec.deaths) }
    IN  \A a, b \in DOMAIN rec.players :
          ( /\ a # b
            /\ DOMAIN rec.players = {a, b}
            /\ rec.players[a].bodyLen <= 12 /\ rec.players[b].bodyLen <= 12
            /\ HeadToHead(rec.players[a], rec.players[b], rec.config) )
          => IF rec.players[a].score < rec.players[b].score THEN dead = {a}
             ELSE IF rec.players[b].score < rec.players[a].score THEN dead = {b}
             ELSE dead = {a} \/ dead = {b}

\* the inputs accepted on ws at the clock instants of T
RECURSIVE AcceptedAt(_, _)
AcceptedAt(ws, T) ==
  IF T = {} THEN 0
  ELSE LET t == CHOOSE x \in T : TRUE
       IN  accepted[ws][t] + AcceptedAt(ws, T \ {t})

\* the inputs accepted on ws in the second that starts at the instant from
AcceptedInSecondFrom(ws, from) ==
  AcceptedAt(ws, { t \in DOMAIN accepted[ws] : from <= t /\ t <= from + 1000 })

\* C3: every session's allowance stays within 0 and the bucket's capacity of 45
\* tokens; a session has at most 30 + 45 inputs accepted in any second of the
\* clock, and at most 45 at any one instant, however many frames it sends.
C3_BucketBounds ==
  /\ \A ws \in DOMAIN meta :
       /\ 0 <= meta[ws].inputAllowance
       /\ meta[ws].inputAllowance <= INPUT_BUCKET_CAPACITY * 1000
  /\ \A ws \in Sockets : \A t \in DOMAIN accepted[ws] :
       /\ accepted[ws][t] <= INPUT_BUCKET_CAPACITY
       /\ AcceptedInSecondFrom(ws, t) <= INPUTS_PER_SECOND + INPUT_BUCKET_CAPACITY

\* C3's case: a fresh session has sent 100 input frames at one instant; 45 were
\* accepted and 55 throttled
C3_BurstOfHundred ==
  \E ws \in DOMAIN meta :
    /\ frames = 101
    /\ now = meta[ws].inputRefillAt
    /\ now \in DOMAIN accepted[ws] /\ accepted[ws][now] = 45
    /\ metrics.inputThrottled = 55
    /\ meta[ws].inputAllowance < 1000

\* 30 + 45 inputs can be accepted within one second
C3_SecondFilled ==
  \E ws \in Sockets : \E t \in DOMAIN accepted[ws] :
    AcceptedInSecondFrom(ws, t) = INPUTS_PER_SECOND + INPUT_BUCKET_CAPACITY

\* C4: an input frame that passes the anti-spoof rule while the sender's
\* allowance, after the refill, is below one token adds exactly one to
\* inputThrottled, takes no token, leaves the player (targetDirectionRad and
\* boosting included) as it was and sends nothing.
C4_ThrottledDropped ==
  [][\A ws \in Sockets, msg \in OwnInputs :
       ( /\ Input(ws, msg)
         /\ PassesAntiSpoof(ws, msg)
         /\ meta[ws].inputAllowance
              + Max(0, now - meta[ws].inputRefillAt) * INPUTS_PER_SECOND < 1000 )
       => /\ metrics'.inputThrottled = metrics.inputThrottled + 1
          /\ meta'[ws].inputAllowance
               = meta[ws].inputAllowance
                   + Max(0, now - meta[ws].inputRefillAt) * INPUTS_PER_SECOND
          /\ rooms' = rooms
          /\ accepted' = accepted
          /\ sent' = << >>]_vars

\* C4's case: the last frame was throttled, the bucket having been refilled
\* and emptied again since the session connected
C4_ThrottledAfterRefill ==
  \E ws \in DOMAIN meta :
    /\ Len(logged) = 1 /\ logged[1].type = "player_input_throttled"
    /\ meta[ws].inputAllowance < 1000
    /\ meta[ws].inputRefillAt > meta[ws].lastMessageAt
    /\ metrics.inputThrottled > 0

\* C6: every room that is not closed holds at most config.maxPlayers players.
C6_RoomWithinMaxPlayers ==
  \A id \in DOMAIN rooms :
    ~rooms[id].isClosed
      => Cardinality(DOMAIN rooms[id].players) <= rooms[id].config.maxPlayers

\* how far the pongs of a session lag its pings: the time from its last pong
\* (from its first ping when it has never answered one) to its last ping
PongLag(ws) ==
  IF meta[ws].lastPingSentAt = Null THEN 0
  ELSE IF meta[ws].lastPongAt # Null THEN meta[ws].lastPingSentAt - meta[ws].lastPongAt
  ELSE meta[ws].lastPingSentAt - firstPingAt[ws]

\* C8: a session whose pongs lag its pings by more than 30 seconds, one that
\* has never sent a pong included, does not survive an idle sweep: the sweep
\* closes it (code 4002).
C8_UnansweredPingsEvicted ==
  [][IdleSweep =>
       \A ws \in DOMAIN meta :
         (PongLag(ws) > NO_PONG_LIMIT_MS /\ wsState[ws] = "open")
           => wsState'[ws] = "closing" /\ closeCode'[ws] = 4002]_vars

\* a frame of some kind is received on ws
FrameOn(ws) ==
  \/ \E raw \in RawNames, r \in RandomDraws : Hello(ws, raw, r, r, r)
  \/ \E msg \in InputFrames \cup OwnInputs : Input(ws, msg)
  \/ \E id \in PongIds(ws) \cup {Absent} : Pong(ws, id)
  \/ PingFrame(ws)
  \/ \E kind \in {"unknown", "malformed"} : OtherFrame(ws, kind)

\* C9: every frame received on a socket, of any kind, sets the session's
\* lastMessageAt to the current time.
C9_EveryFrameTouches ==
  [][\A ws \in Sockets :
       (FrameOn(ws) /\ ws \in DOMAIN meta') => meta'[ws].lastMessageAt = now]_vars

\* ------------------------------------------------ the tie-break scenario
\* SpecTie: two sessions join, the draws of Math.random() for the spawn and
\* for the heading being independent, steer and boost, and the simulation
\* ticks on time or late.
TieFrames == 4

TieStep == 50

TieWindow == 50

TieInputs ==
  { [playerId |-> Str(p), directionRad |-> Num(d), boosting |-> Bool(TRUE)] :
      p \in 1..2, d \in {0, 180} }

NextTie ==
  \/ \E ws \in SpecSockets : Connect(ws)
  \/ \E ws \in SpecSockets, r \in RandomDraws, rDir \in RandomDraws :
       frames < TieFrames /\ Hello(ws, "bo", r, r, rDir)
  \/ \E ws \in SpecSockets, msg \in TieInputs : frames < TieFrames /\ Input(ws, msg)
  \/ \E r \in RandomDraws : Tick(r)
  \/ AdvanceClock(TieStep, StartTime + TieWindow)

SpecTie == Init /\ [][NextTie]_vars

\* the room holds exactly two players, at the same position, with equal
\* scores of 10, both boosting, on opposite headings they keep
TieScenario(id) ==
  /\ Cardinality(DOMAIN rooms[id].players) = 2
  /\ \A p, q \in DOMAIN rooms[id].players :
       LET a == rooms[id].players[p]
           b == rooms[id].players[q]
       IN  /\ a.position = b.position
           /\ a.score = 100
           /\ a.boosting
           /\ normalizeAngle(Num(a.targetDirectionRad - a.directionRad)) = 0
           /\ p # q => normalizeAngle(Num(a.directionRad - b.directionRad)) = -Pi

\* C11: one tick of the tie-break scenario leaves the first-inserted player
\* in the room with a score of 10 less the boost decay, removes the other and
\* sends it a 'dead' frame.
C11_TieBreakSurvivor ==
  [][\A r \in RandomDraws : \A id \in DOMAIN rooms :
       (Tick(r) /\ TieScenario(id)) =>
         LET ids == KeysInOrder(DOMAIN rooms[id].players)
         IN  /\ id \in DOMAIN rooms'
             /\ DOMAIN rooms'[id].players = { ids[1] }
             /\ rooms'[id].players[ids[1]].score = 100 - BoostDecay(100)
             /\ InSeq(Frame(rooms[id].players[ids[2]].ws, "dead", 0, 0), sent')]_vars

\* ------------------------------------------------------ a player alone
\* SpecSolo: one session joins before the first tick and may steer once; the
\* simulation ticks on time, every SoloStep milliseconds, for SoloWindow
\* milliseconds.
SoloFrames == 2

SoloStep == 50

SoloWindow == 1700

SoloInputs ==
  { [playerId |-> Str(1), directionRad |-> Num(d), boosting |-> Bool(FALSE)] :
      d \in {90, 180} }

TickDue == now >= nextTickAt

NextSolo ==
  \/ ~TickDue /\ Connect("w1")
  \/ \E r \in RandomDraws, rDir \in RandomDraws :
       ~TickDue /\ frames < SoloFrames /\ Hello("w1", "bo", r, r, rDir)
  \/ \E msg \in SoloInputs : ~TickDue /\ frames < SoloFrames /\ Input("w1", msg)
  \/ \E r \in RandomDraws : Tick(r)
  \/ ~TickDue /\ Joined("w1") /\ AdvanceClock(SoloStep, StartTime + SoloWindow)

SpecSolo == Init /\ [][NextSolo]_vars

\* C12: a tick never kills a player that is alone in its room: the collision
\* scan of the room produces no death, the player stays in the room and no
\* 'dead' frame is sent to its session.
C12_SoloNeverDies ==
  [][\A r \in RandomDraws : \A id \in DOMAIN rooms :
       (Tick(r) /\ Cardinality(DOMAIN rooms[id].players) = 1) =>
         /\ id \in DOMAIN rooms'
         /\ DOMAIN rooms'[id].players = DOMAIN rooms[id].players
         /\ tickLog'[id].deaths = << >>
         /\ \A p \in DOMAIN rooms[id].players :
              ~InSeq(Frame(rooms[id].players[p].ws, "dead", 0, 0), sent')]_vars

\* C12's case: the last tick scanned a room whose only player has its head on
\* a segment of its own body, and the player is still there
C12_HeadOnOwnBody ==
  \E id \in DOMAIN rooms \cap DOMAIN tickLog :
    /\ Cardinality(DOMAIN rooms[id].players) = 1
    /\ tickLog[id].deaths = << >>
    /\ \A p \in DOMAIN rooms[id].players :
         /\ p \in DOMAIN tickLog[id].players
         /\ HitsBody(rooms[id].players[p], rooms[id].players[p], rooms[id].config, 0)

\* the players the collision scan of the last tick marked dead in room id
MarkedDead(id) == { tickLog[id].deaths[n] : n \in 1..Len(tickLog[id].deaths) }

\* C13: at the end of a tick, every player the tick marked dead has been sent
\* a 'dead' frame and is out of its room, its session is bound to no room, and
\* a room the deaths emptied has emptySince set to the time of the tick.
C13_DeadProcessed ==
  [][\A r \in RandomDraws : \A id \in DOMAIN rooms : \A p \in DOMAIN rooms[id].players :
       (Tick(r) /\ id \in DOMAIN tickLog' /\ p \in MarkedDead(id)') =>
         LET ws == rooms[id].players[p].ws
         IN  /\ InSeq(Frame(ws, "dead", 0, 0), sent')
             /\ id \in DOMAIN rooms'
             /\ p \notin DOMAIN rooms'[id].players
             /\ ws \in DOMAIN meta => ws \in DOMAIN meta' /\ meta'[ws].roomId = Null
             /\ DOMAIN rooms'[id].players = {}
                  => rooms'[id].emptySince # Null /\ rooms'[id].emptySince = now]_vars

\* C13's case: the last handler was a tick whose deaths emptied a room: the
\* dead were sent their frames and their sessions are unbound
C13_RoomEmptiedByDeaths ==
  \E id \in DOMAIN rooms \cap DOMAIN tickLog :
    /\ Cardinality(MarkedDead(id)) = 2
    /\ DOMAIN rooms[id].players = {}
    /\ rooms[id].emptySince = now
    /\ Len(sent) = 2
    /\ \A n \in 1..Len(sent) :
         sent[n].t = "dead" /\ sent[n].to \in DOMAIN meta /\ meta[sent[n].to].roomId = Null

\* C13's other case: only one of two players died and the room is not empty
C13_OneDied ==
  \E id \in DOMAIN rooms \cap DOMAIN tickLog :
    /\ Cardinality(MarkedDead(id)) = 1
    /\ Cardinality(DOMAIN rooms[id].players) = 1
    /\ rooms[id].emptySince = Null
    /\ Len(sent) = 1 /\ sent[1].t = "dead"

\* room id is open and without players, its emptyRoomTtlSeconds is positive
\* and at least that long has passed since its emptySince
TtlElapsed(id) ==
  /\ ~rooms[id].isClosed
  /\ DOMAIN rooms[id].players = {}
  /\ rooms[id].config.emptyRoomTtlSeconds > 0
  /\ rooms[id].emptySince # Null
  /\ now >= rooms[id].emptySince + rooms[id].config.emptyRoomTtlSeconds * 1000

\* C14: a tick at a time when an empty room's ttl has elapsed closes the room
\* with reason timeout_empty and removes it from the room manager, and
\* roomsClosedTimeout grows by exactly one for each such room.
C14_EmptyRoomCollected ==
  [][\A r \in RandomDraws :
       Tick(r) =>
         LET due == { id \in DOMAIN rooms : TtlElapsed(id) }
         IN  /\ \A id \in due :
                  /\ id \notin DOMAIN rooms'
                  /\ InSeq(LogEntry("room_close:timeout_empty", id, 0), logged')
             /\ metrics'.roomsClosedTimeout
                  = metrics.roomsClosedTimeout + Cardinality(due)]_vars

\* C14's case: the last tick closed a room whose ttl had elapsed
C14_RoomTimedOut ==
  /\ metrics.roomsClosedTimeout = 1
  /\ \E id \in 1..MaxRooms :
       /\ id \notin DOMAIN rooms
       /\ logged = << LogEntry("room_close:timeout_empty", id, 0) >>

\* ------------------------------------------------------ empty-room ttl
\* SpecTtl: one session joins and leaves while the admin patches
\* emptyRoomTtlSeconds, of a room or of the default config, and closes rooms;
\* the clock moves in steps of TtlStep and the tick never runs early.
TtlFrames == 2

TtlRequests == 2

TtlStep == 1000

TtlWindow == 4000

NextTtl ==
  \/ Connect("w1")
  \/ \E r \in RandomDraws : frames < TtlFrames /\ Hello("w1", "bo", r, r, r)
  \/ CloseEvent("w1")
  \/ \E id \in 1..MaxRooms, value \in {0, 2} :
       requests < TtlRequests /\ PatchRoomConfig(id, "emptyRoomTtlSeconds", value)
  \/ \E value \in {0, 2} :
       requests < TtlRequests /\ PatchDefaultConfig("emptyRoomTtlSeconds", value)
  \/ \E id \in 1..MaxRooms : requests < TtlRequests /\ CloseRoomAdmin(id)
  \/ \E r \in RandomDraws : Tick(r)
  \/ AdvanceClock(TtlStep, StartTime + TtlWindow)

SpecTtl == Init /\ [][NextTtl]_vars

\* C15: a room whose emptyRoomTtlSeconds is 0 is never closed with reason
\* timeout_empty: no step logs that close for it, and the only step that
\* removes it from the room manager is the admin's close of that room.
C15_TtlZeroNeverCollected ==
  [][\A id \in DOMAIN rooms :
       rooms[id].config.emptyRoomTtlSeconds = 0 =>
         /\ ~InSeq(LogEntry("room_close:timeout_empty", id, 0), logged')
         /\ id \notin DOMAIN rooms' => CloseRoomAdmin(id)]_vars

\* C15's case: a tick has just run on a room with a ttl of 0 that has been
\* empty for three seconds, and the room is still there
C15_TtlZeroStillOpen ==
  \E id \in DOMAIN rooms :
    /\ rooms[id].config.emptyRoomTtlSeconds = 0
    /\ DOMAIN rooms[id].players = {}
    /\ rooms[id].emptySince # Null
    /\ now - rooms[id].emptySince >= 3000
    /\ nextTickAt = now + 1000 \div TICK_RATE

\* the collector works in SpecTtl: a room with a ttl of 2 seconds timed out
C15_TtlTwoCollected == metrics.roomsClosedTimeout > 0

\* ------------------------------------------------------- closing rooms
\* SpecClose: two sessions join and leave while the admin sends up to
\* CloseRequests DELETE /admin/rooms/:id requests.
CloseRequests == 2

NextClose ==
  \/ \E ws \in SpecSockets : Connect(ws)
  \/ \E ws \in SpecSockets, r \in RandomDraws :
       frames < MaxFrames /\ Hello(ws, "bo", r, r, r)
  \/ \E ws \in SpecSockets : CloseEvent(ws)
  \/ \E id \in 1..MaxRooms : requests < CloseRequests /\ CloseRoomAdmin(id)

SpecClose == Init /\ [][NextClose]_vars

\* C16: a close of an existing room returns true, removes the room with all
\* its players and closes their sockets; a close of a room that does not exist
\* (such as a second close of the same id) returns false and changes nothing:
\* rooms, players, sessions, sockets, counters and ban set stay as they are
\* and nothing is logged or sent.
C16_CloseIdempotent ==
  [][\A id \in 1..MaxRooms :
       CloseRoomAdmin(id) =>
         LET st == [rooms |-> rooms, wsState |-> wsState, closeCode |-> closeCode,
                    adminState |-> adminState, sent |-> << >>, logged |-> << >>]
         IN  IF id \in DOMAIN rooms
             THEN /\ closeRoomReturns(st, id)
                  /\ id \notin DOMAIN rooms'
                  /\ \A p \in DOMAIN rooms[id].players :
                       wsState'[rooms[id].players[p].ws] # "open"
                  /\ ~closeRoomReturns([st EXCEPT !.rooms = rooms'], id)
             ELSE /\ ~closeRoomReturns(st, id)
                  /\ UNCHANGED << rooms, meta, wsState, closeCode, adminVars, metrics,
                                  bannedNames, defaultConfig, nextRoomId, nextPlayerId >>
                  /\ logged' = << >>
                  /\ sent' = << >>]_vars

\* C16's case: the admin has closed room 1 with a player in it, whose socket
\* is closing, and sent a second close that found no room and left no trace
C16_ClosedTwice ==
  /\ requests = 2
  /\ rooms = EmptyMap
  /\ nextRoomId = 2
  /\ logged = << >>
  /\ \E ws \in Sockets :
       /\ wsState[ws] = "closing" /\ closeCode[ws] = 1000
       /\ ws \in DOMAIN meta /\ meta[ws].roomId = 1

\* ------------------------------------------------------ admin spectators
\* wssAdmin.on('connection'): a socket without the admin token is closed with
\* code 1008 and gets no handlers; one with the token gets its
\* AdminSpectatorMeta
AdminConnect(a, authorized) ==
  /\ adminState[a] = "idle"
  /\ adminState' = [adminState EXCEPT ![a] = IF authorized THEN "open" ELSE "closing"]
  /\ adminMeta' = IF authorized THEN MapSet(adminMeta, a, Null) ELSE adminMeta
  /\ sent' = << >>
  /\ logged' = << >>
  /\ UNCHANGED << now, wsState, closeCode, meta, rooms, defaultConfig, nextRoomId,
                  nextPlayerId, bannedNames, metrics, timerVars, frames, requests,
                  histVars >>

\* the admin socket's ws.on('message'), msg.t === 'subscribe' with a string
\* roomId
AdminSubscribe(a, roomId) ==
  /\ a \in DOMAIN adminMeta
  /\ adminState[a] \in {"open", "closing"}
  /\ frames' = frames + 1
  /\ adminMeta' = MapSet(adminMeta, a, roomId)
  /\ sent' = << Frame(a, "subscribed", roomId, 0) >>
  /\ logged' = << >>
  /\ UNCHANGED << now, wsState, closeCode, meta, rooms, defaultConfig, nextRoomId,
                  nextPlayerId, bannedNames, metrics, timerVars, adminState, requests,
                  histVars >>

\* the admin socket's ws.on('close') (no handler on an unauthorized socket)
AdminCloseEvent(a) ==
  /\ adminState[a] \in {"open", "closing"}
  /\ adminState' = [adminState EXCEPT ![a] = "closed"]
  /\ adminMeta' = MapDelete(adminMeta, a)
  /\ sent' = << >>
  /\ logged' = << >>
  /\ UNCHANGED << now, wsState, closeCode, meta, rooms, defaultConfig, nextRoomId,
                  nextPlayerId, bannedNames, metrics, timerVars, frames, requests,
                  histVars >>

\* SpecSpectate: a player session joins and leaves, admin sockets connect and
\* subscribe to rooms, the admin closes rooms and the tick collects empty ones.
NextSpectate ==
  \/ Connect("w1")
  \/ \E r \in RandomDraws : frames < MaxFrames /\ Hello("w1", "bo", r, r, r)
  \/ CloseEvent("w1")
  \/ \E a \in AdminSockets, authorized \in BOOLEAN : AdminConnect(a, authorized)
  \/ \E a \in AdminSockets, id \in 1..MaxRooms :
       frames < MaxFrames /\ AdminSubscribe(a, id)
  \/ \E a \in AdminSockets : AdminCloseEvent(a)
  \/ \E id \in 1..MaxRooms : requests < MaxRequests /\ CloseRoomAdmin(id)
  \/ \E r \in RandomDraws : Tick(r)
  \/ AdvanceClock(ClockStep, MaxNow)

SpecSpectate == Init /\ [][NextSpectate]_vars

\* the admin spectators with an open socket that are subscribed to room id
SubscribersOf(id) ==
  { a \in DOMAIN adminMeta : adminMeta[a] = id /\ adminState[a] = "open" }

\* C17: a step that closes a room, by the admin's request or by the tick's
\* timeout, sends every admin spectator subscribed to the room a room_closed
\* frame and closes its socket.
C17_SpectatorsNotified ==
  [][\A id \in DOMAIN rooms :
       id \notin DOMAIN rooms' =>
         \A a \in SubscribersOf(id) :
           /\ InSeq(Frame(a, "room_closed", id, 0), sent')
           /\ adminState'[a] # "open"]_vars

\* the rooms a hello can join: not closed and with fewer players than maxPlayers
RoomsWithSlot ==
  { id \in DOMAIN rooms :
      ~rooms[id].isClosed
      /\ Cardinality(DOMAIN rooms[id].players) < rooms[id].config.maxPlayers }

\* C18: a successful hello puts the new player in the first existing room, in
\* the manager's order, that is not closed and has a free slot, creating no
\* room; only when there is no such room does it create one, from the current
\* default config, and put the player there.
C18_JoinsFirstRoomWithSlot ==
  [][\A ws \in Sockets :
       (nextPlayerId' = nextPlayerId + 1 /\ Len(sent') = 1 /\ sent'[1].to = ws
          /\ sent'[1].t = "joined") =>
         IF RoomsWithSlot # {}
         THEN LET first == KeysInOrder(RoomsWithSlot)[1]
              IN  /\ DOMAIN rooms' = DOMAIN rooms
                  /\ DOMAIN rooms'[first].players
                       = DOMAIN rooms[first].players \cup {nextPlayerId}
                  /\ rooms'[first].players[nextPlayerId].ws = ws
                  /\ meta'[ws].roomId = first
         ELSE /\ DOMAIN rooms' = DOMAIN rooms \cup {nextRoomId}
              /\ nextRoomId \notin DOMAIN rooms
              /\ rooms'[nextRoomId].config = defaultConfig
              /\ DOMAIN rooms'[nextRoomId].players = {nextPlayerId}
              /\ rooms'[nextRoomId].players[nextPlayerId].ws = ws
              /\ meta'[ws].roomId = nextRoomId]_vars

\* C18's case: a hello has just joined room 1 while room 2 was open with a
\* free slot as well
C18_JoinedFirstOfTwo ==
  /\ DOMAIN rooms = {1, 2}
  /\ Len(sent) = 1 /\ sent[1].t = "joined" /\ sent[1].a = 1
  /\ DOMAIN rooms[2].players = {}
  /\ rooms[2].config.maxPlayers > 0

\* C18's other case: room 1 being full, a hello has just created room 2 from
\* the patched default config
C18_CreatedFromPatchedDefault ==
  /\ DOMAIN rooms = {1, 2}
  /\ Len(sent) = 1 /\ sent[1].t = "joined" /\ sent[1].a = 2
  /\ Cardinality(DOMAIN rooms[1].players) = rooms[1].config.maxPlayers
  /\ rooms[2].config = defaultConfig
  /\ defaultConfig # SparseConfig

\* ------------------------------------------------------- hello and bans
\* the admin requests of one run of SpecHello
BanRequests == 2

\* the names hello frames and ban requests carry
HelloNames == RawNames \cup {LongName}

\* SpecHello: two sessions send hello frames with every name of HelloNames,
\* joined or not, while the admin bans names.
NextHello ==
  \/ \E ws \in SpecSockets : Connect(ws)
  \/ \E ws \in SpecSockets, raw \in HelloNames, r \in RandomDraws :
       frames < MaxFrames /\ Hello(ws, raw, r, r, r)
  \/ \E ws \in SpecSockets : CloseEvent(ws)
  \/ \E raw \in HelloNames : requests < BanRequests /\ Ban(raw)

SpecHello == Init /\ [][NextHello]_vars

\* a hello frame carrying the name raw arrives on ws
HelloOn(ws, raw) == \E r \in RandomDraws : Hello(ws, raw, r, r, r)

\* the frames a hello of a bound session is answered with: the name checks
\* come first, so an empty or banned name still draws its error
BoundHelloReply(ws, raw) ==
  IF TrimSlice(raw) = "" THEN << Frame(ws, "error:INVALID_NAME", 0, 0) >>
  ELSE IF ToLowerCase(TrimSlice(raw)) \in bannedNames
       THEN << Frame(ws, "error:BANNED", 0, 0) >>
       ELSE << >>

\* C19 as stated: a hello of a session that is bound to a room creates no
\* player and no room, changes no room or session state and sends the sender
\* no frame, whatever name it carries.
C19_BoundHelloSilent ==
  [][\A ws \in Sockets, raw \in HelloNames :
       (HelloOn(ws, raw) /\ Joined(ws)) =>
         /\ UNCHANGED << rooms, meta, nextRoomId, nextPlayerId, wsState, closeCode,
                         metrics, bannedNames >>
         /\ logged' = << >>
         /\ sent' = << >>]_vars

\* C19 amended: a hello of a session that is bound to a room creates no player
\* and no room and changes no room or session state; it sends no joined frame,
\* and no frame at all unless its name is empty after trimming (error
\* INVALID_NAME) or banned (error BANNED).
C19_BoundHelloNoEffect ==
  [][\A ws \in Sockets, raw \in HelloNames :
       (HelloOn(ws, raw) /\ Joined(ws)) =>
         /\ UNCHANGED << rooms, meta, nextRoomId, nextPlayerId, wsState, closeCode,
                         metrics, bannedNames >>
         /\ logged' = << >>
         /\ sent' = BoundHelloReply(ws, raw)]_vars

\* C19's case: of two hello frames one joined and the other, sent by a bound
\* session with an acceptable name, was ignored without a reply
C19_SecondHelloIgnored ==
  /\ frames = 2
  /\ nextPlayerId = 2
  /\ requests = 0
  /\ sent = << >>
  /\ \A ws \in Sockets : wsState[ws] \in {"idle", "open"}

\* raw is a name the ban endpoint has processed: its trimmed, lowercased form
\* is in the ban set
IsBanned(raw) == Trim(raw) # "" /\ ToLowerCase(Trim(raw)) \in bannedNames

\* a room holds a player whose lowercased name is the lowercased banned name
BannedPlayerIn(raw) ==
  \E id \in DOMAIN rooms : BanMatches(rooms[id], Trim(raw)) # {}

\* C20: once ban(name) has been processed no room holds a player whose
\* lowercased name equals the lowercased banned name, every later hello
\* carrying that name is answered with error BANNED and creates no player,
\* and the ban set only grows.
C20_BanSafety ==
  /\ [](\A raw \in HelloNames : IsBanned(raw) => ~BannedPlayerIn(raw))
  /\ [][/\ bannedNames \subseteq bannedNames'
        /\ \A ws \in Sockets, raw \in HelloNames :
             (HelloOn(ws, raw) /\ IsBanned(raw)) =>
               /\ sent' = << Frame(ws, "error:BANNED", 0, 0) >>
               /\ UNCHANGED << rooms, nextPlayerId >>]_vars

\* the names of at most MaxNameLength characters after trimming
ShortNames == { raw \in HelloNames : TrimSlice(raw) = Trim(raw) }

\* C20 restricted to names the hello handler does not truncate
C20_BanSafetyShortNames ==
  /\ [](\A raw \in ShortNames : IsBanned(raw) => ~BannedPlayerIn(raw))
  /\ [][/\ bannedNames \subseteq bannedNames'
        /\ \A ws \in Sockets, raw \in ShortNames :
             (HelloOn(ws, raw) /\ IsBanned(raw)) =>
               /\ sent' = << Frame(ws, "error:BANNED", 0, 0) >>
               /\ UNCHANGED << rooms, nextPlayerId >>]_vars

\* a hello carrying a banned name was refused
C20_BannedHelloRefused ==
  /\ bannedNames # {}
  /\ \E ws \in Sockets : sent = << Frame(ws, "error:BANNED", 0, 0) >>

\* a ban disconnected a player that had joined under the name
C20_BanKickedPlayer ==
  /\ bannedNames # {}
  /\ \E ws \in Sockets : wsState[ws] = "closing" /\ closeCode[ws] = 4001

\* ------------------------------------------------------- ban and kick
\* the players of room id whose lowercased name is the lowercased name
NamedLike(id, name) ==
  { p \in DOMAIN rooms[id].players :
      ToLowerCase(rooms[id].players[p].name) = ToLowerCase(name) }

\* ban(name) has nothing left to do: the name is in the ban set and no player
\* carries it, as after an application of ban(name)
BanSettled(name) ==
  /\ ToLowerCase(name) \in bannedNames
  /\ \A id \in DOMAIN rooms : NamedLike(id, name) = {}

\* C21: ban(name) removes every online player with a matching name from its
\* room, closes its socket with code 4001 and sets its session's roomId to
\* null; applied again to the state an application left, it changes neither
\* the ban set nor the rooms nor the sessions.
C21_BanIdempotent ==
  [][\A raw \in HelloNames :
       (Ban(raw) /\ Trim(raw) # "") =>
         /\ \A id \in DOMAIN rooms : \A p \in NamedLike(id, Trim(raw)) :
              LET ws == rooms[id].players[p].ws
              IN  /\ id \in DOMAIN rooms'
                  /\ p \notin DOMAIN rooms'[id].players
                  /\ wsState'[ws] # "open"
                  /\ wsState[ws] = "open" =>
                       wsState'[ws] = "closing" /\ closeCode'[ws] = 4001
                  /\ ws \in DOMAIN meta' => meta'[ws].roomId = Null
         /\ ToLowerCase(Trim(raw)) \in bannedNames'
         /\ \A id \in DOMAIN rooms' : \A p \in DOMAIN rooms'[id].players :
              ToLowerCase(rooms'[id].players[p].name) # ToLowerCase(Trim(raw))
         /\ BanSettled(Trim(raw)) =>
              UNCHANGED << bannedNames, rooms, meta, wsState, closeCode >>]_vars

\* C21's case: a ban disconnected a player and a second ban of the name
\* followed, disconnecting nobody
C21_BannedTwice ==
  /\ requests = 2
  /\ Cardinality(bannedNames) = 1
  /\ \E ws \in Sockets : closeCode[ws] = 4001
  /\ logged = << LogEntry("admin_ban", 0, 0) >>

\* room with its player map blanked, to compare everything else of the room
SansPlayers(room) == [room EXCEPT !.players = EmptyMap]

\* C22: kick(room, player) on an existing player closes that player's socket
\* with code 4000, removes the player from the room and sets the session's
\* roomId to null, leaving every other player, session and room unchanged;
\* kick on an unknown room or player changes nothing.
C22_KickFrame ==
  [][\A id \in 1..MaxRooms, p \in 1..MaxPlayerIds :
       Kick(id, p) =>
         IF id \in DOMAIN rooms /\ p \in DOMAIN rooms[id].players
         THEN LET ws == rooms[id].players[p].ws
              IN  /\ wsState'[ws] # "open"
                  /\ wsState[ws] = "open" =>
                       wsState'[ws] = "closing" /\ closeCode'[ws] = 4000
                  /\ \A w \in Sockets \ {ws} :
                       wsState'[w] = wsState[w] /\ closeCode'[w] = closeCode[w]
                  /\ DOMAIN rooms' = DOMAIN rooms
                  /\ \A r \in DOMAIN rooms \ {id} : rooms'[r] = rooms[r]
                  /\ SansPlayers(rooms'[id]) = SansPlayers(rooms[id])
                  /\ DOMAIN rooms'[id].players = DOMAIN rooms[id].players \ {p}
                  /\ \A q \in DOMAIN rooms'[id].players :
                       rooms'[id].players[q] = rooms[id].players[q]
                  /\ DOMAIN meta' = DOMAIN meta
                  /\ \A w \in DOMAIN meta \ {ws} : meta'[w] = meta[w]
                  /\ ws \in DOMAIN meta =>
                       meta'[ws] = [meta[ws] EXCEPT !.roomId = Null]
                  /\ UNCHANGED << bannedNames, defaultConfig, nextRoomId, nextPlayerId >>
         ELSE UNCHANGED << rooms, meta, wsState, closeCode, bannedNames,
                           defaultConfig, nextRoomId, nextPlayerId >>]_vars

\* C22's case: a kick has just removed a player whose socket is closing with
\* code 4000 while another player stays in the room
C22_KickedOneOfTwo ==
  \E id \in DOMAIN rooms : \E p \in 1..MaxPlayerIds :
    /\ logged = << LogEntry("admin_kick", id, p) >>
    /\ DOMAIN rooms[id].players # {}
    /\ \E ws \in Sockets : wsState[ws] = "closing" /\ closeCode[ws] = 4000

\* ------------------------------------------------------- player bounds
\* C23: in every reachable state every player has score >= 0 and a position
\* with |x| <= mapSize and |y| <= mapSize of its room's current config.
C23_PlayersInBounds ==
  \A id \in DOMAIN rooms : \A p \in DOMAIN rooms[id].players :
    LET player == rooms[id].players[p]
        mapSize == rooms[id].config.mapSize
    IN  /\ player.score >= 0
        /\ -mapSize <= player.position[1] /\ player.position[1] <= mapSize
        /\ -mapSize <= player.position[2] /\ player.position[2] <= mapSize

\* ------------------------------------------------------- pong
PongFrames == 2

PongStep == 500

PongWindow == 4500

\* the pingId fields of the pong frames a client sends: no number, NaN, zero,
\* the id of the first ping, the id of the last ping
PongFields(ws) == PongIds(ws) \cup {Absent, NaN, Num(StartTime + PING_PERIOD_MS)}

\* SpecPong: two sessions answering the ping loop, which runs on time, with
\* matching, stale and malformed pongs.
NextPong ==
  \/ \E ws \in SpecSockets : now < nextPingAt /\ Connect(ws)
  \/ \E ws \in SpecSockets : \E id \in PongFields(ws) :
       now < nextPingAt /\ frames < PongFrames /\ Pong(ws, id)
  \/ PingLoop
  \/ now < nextPingAt /\ AdvanceClock(PongStep, StartTime + PongWindow)

SpecPong == Init /\ [][NextPong]_vars

\* the pong's pingId is the id of the last ping sent to the session
PongMatches(ws, id) ==
  /\ id.k = "num"
  /\ ws \in DOMAIN meta
  /\ meta[ws].lastPingSentAt # Null
  /\ meta[ws].lastPingId = id.v

\* what a pong leaves of the sessions, frames and rooms in every case
PongFrame(ws, id, touched) ==
  /\ DOMAIN meta' = DOMAIN meta
  /\ \A w \in DOMAIN meta \ {ws} : meta'[w] = meta[w]
  /\ UNCHANGED << rooms, wsState, closeCode >>
  /\ IF PongMatches(ws, id)
     THEN /\ meta'[ws] = [meta[ws] EXCEPT !.rttMs = now - meta[ws].lastPingSentAt,
                                           !.lastPongAt = now]
          /\ meta'[ws].rttMs >= 0
          /\ sent' = << Frame(ws, "latency", meta'[ws].rttMs, 0) >>
     ELSE /\ sent' = << >>
          /\ ws \in DOMAIN meta =>
               meta'[ws] = IF touched THEN [meta[ws] EXCEPT !.lastMessageAt = now]
                           ELSE meta[ws]

\* C24 as stated: a pong whose pingId is the session's last ping id sets
\* rttMs = now - lastPingSentAt >= 0 and lastPongAt = now and sends one latency
\* frame to that session only; a pong with any other pingId, or before any
\* ping, changes no session field and sends nothing.
C24_PongOnlyOnMatch ==
  [][\A ws \in Sockets : \A id \in PongFields(ws) :
       Pong(ws, id) => PongFrame(ws, id, FALSE)]_vars

\* C24 amended: as stated for a pingId that is a number; a pong whose pingId
\* is no number is handled as an unknown frame, which sets the session's
\* lastMessageAt to now and sends nothing.
C24_PongOnlyOnMatchOrTouch ==
  [][\A ws \in Sockets : \A id \in PongFields(ws) :
       Pong(ws, id) => PongFrame(ws, id, id.k \notin {"num", "nan", "inf"})]_vars

\* C24's case: a session has answered its last ping half a second late and
\* got the latency frame, while another session is open
C24_LatencyMeasured ==
  \E ws \in DOMAIN meta :
    /\ meta[ws].rttMs = PongStep
    /\ sent = << Frame(ws, "latency", PongStep, 0) >>
    /\ DOMAIN meta # {ws}

\* a stale pong was dropped: two pings went out, the session answered the
\* first one's id after the second and no round trip was recorded
C24_StalePongDropped ==
  \E ws \in DOMAIN meta :
    /\ meta[ws].lastPingId = StartTime + 2 * PING_PERIOD_MS
    /\ meta[ws].rttMs = Null
    /\ frames = 1
    /\ sent = << >>
    /\ meta[ws].lastMessageAt < now
    /\ now < nextPingAt

\* ------------------------------------------------------- state frames
ViewFrames == 3

ViewStep == 50

ViewWindow == 100

ViewDue == now >= nextTickAt \/ now >= nextBroadcastAt

\* SpecView: two sessions join (and, once dead, re-join) a room anywhere the
\* spawn draws put them, while the simulation and the broadcast run on time,
\* the one that has been due longest first.
NextView ==
  \/ \E ws \in SpecSockets : ~ViewDue /\ Connect(ws)
  \/ \E ws \in SpecSockets, x \in RandomDraws, y \in RandomDraws :
       ~ViewDue /\ frames < ViewFrames /\ Hello(ws, "bo", x, y, 0)
  \/ \E ws \in SpecSockets : ~ViewDue /\ CloseEvent(ws)
  \/ \E r \in RandomDraws : nextTickAt <= nextBroadcastAt /\ Tick(r)
  \/ nextBroadcastAt <= nextTickAt /\ Broadcast
  \/ ~ViewDue /\ AdvanceClock(ViewStep, StartTime + ViewWindow)

SpecView == Init /\ [][NextView]_vars

\* the state frames of the last handler
StateFrames == { n \in 1..Len(sent) : sent[n].t = "state" }

\* the recipient's own entry in the players list of state frame n
SelfEntries(n) ==
  { k \in 1..Len(sent[n].players) :
      \E id \in DOMAIN rooms : \E p \in DOMAIN rooms[id].players :
        rooms[id].players[p].ws = sent[n].to /\ sent[n].players[k].id = p }

\* C25: in every state frame the players list contains the recipient, the
\* recipient is its first entry, and the list has at most 40 entries.
C25_RecipientFirst ==
  \A n \in StateFrames :
    /\ SelfEntries(n) # {}
    /\ 1 \in SelfEntries(n)
    /\ Len(sent[n].players) <= VisiblePlayersCap

\* the weaker statement the code keeps in rooms of at most 40 players: the
\* recipient is in the list, once, and the list has at most 40 entries
C25_RecipientIncluded ==
  \A n \in StateFrames :
    /\ Cardinality(SelfEntries(n)) = 1
    /\ Len(sent[n].players) <= VisiblePlayersCap

\* a state frame listed two players
C25_TwoInView ==
  \E n \in StateFrames : Len(sent[n].players) = 2

\* ------------------------------------------------------- visible foods
\* how many foods in view a food list holds in a row: none, one, and around the cap
NearCounts == {0, 1, VisibleFoodsCap - 1, VisibleFoodsCap, VisibleFoodsCap + 1}

\* n foods in view of a head at pos, at distinct places
NearRun(pos, n) == [i \in 1..n |-> Food(<< pos[1] + i, pos[2] >>, 5)]

\* foods at 1000, 2000, 1800 and 1801 units from a head at pos
FoodAt(pos, d) == Food(<< pos[1] + d, pos[2] >>, 5)

\* the food lists of SpecFoods: a run of foods in view between foods at the
\* spec's example distances and at the edge of the view
FoodLists(pos) ==
  { head \o NearRun(pos, n) \o tail :
      n \in NearCounts,
      head \in { << >>, << FoodAt(pos, 2000) >>, << FoodAt(pos, 1801), FoodAt(pos, 1800) >> },
      tail \in { << >>, << FoodAt(pos, 2000), FoodAt(pos, 1000) >>, << FoodAt(pos, 1800) >> } }

\* The server some ticks after one session has joined room 1: the player's
\* head anywhere the spawn puts it, the room's food list any of FoodLists.
InitFoods ==
  \E pos \in { << 0, 0 >>, << -4800, 0 >> } : \E foods \in FoodLists(pos) :
    /\ now = StartTime
    /\ wsState = [w \in Sockets |-> IF w = "w1" THEN "open" ELSE "idle"]
    /\ closeCode = [w \in Sockets |-> Null]
    /\ meta = MapSet(EmptyMap, "w1", [NewMeta EXCEPT !.roomId = 1])
    /\ rooms = MapSet(EmptyMap, 1,
                      [NewRoom(SparseConfig) EXCEPT
                         !.players = MapSet(EmptyMap, 1, NewPlayer(1, "bo", "w1", pos, 0)),
                         !.emptySince = Null,
                         !.foods = foods])
    /\ defaultConfig = SparseConfig
    /\ nextRoomId = 2
    /\ nextPlayerId = 2
    /\ bannedNames = {}
    /\ metrics = [inputSpoofRejected |-> 0, inputInvalid |-> 0, inputThrottled |-> 0,
                  roomsClosedTimeout |-> 0]
    /\ nextPingAt = StartTime + PING_PERIOD_MS
    /\ nextSweepAt = StartTime + SWEEP_PERIOD_MS
    /\ nextTickAt = StartTime + 1000 \div TICK_RATE
    /\ nextBroadcastAt = StartTime
    /\ sent = << >>
    /\ logged = << >>
    /\ adminState = [a \in AdminSockets |-> "idle"]
    /\ adminMeta = EmptyMap
    /\ frames = 1
    /\ requests = 0
    /\ accepted = [w \in Sockets |-> EmptyMap]
    /\ firstPingAt = [w \in Sockets |-> Null]
    /\ tickLog = EmptyMap
    /\ stateLog = [w \in Sockets |-> << >>]

\* SpecFoods: the broadcast applied to those rooms, a second session joining
NextFoods ==
  \/ Connect("w2")
  \/ \E x \in RandomDraws : frames < ViewFrames /\ Hello("w2", "al", x, 500, 0)
  \/ Broadcast

SpecFoods == InitFoods /\ [][NextFoods]_vars

\* the head of the recipient of state frame n
HeadOf(n) ==
  LET room == rooms[sent[n].roomId]
      p == CHOOSE q \in DOMAIN room.players : room.players[q].ws = sent[n].to
  IN  room.players[p].position

\* the foods of a list within 1800 units of pos, in list order
WithinView(foods, pos) ==
  SelectSeq(foods, LAMBDA f : (f.position[1] - pos[1]) * (f.position[1] - pos[1])
                              + (f.position[2] - pos[2]) * (f.position[2] - pos[2])
                              <= 1800 * 1800)

FirstOf(s, n) == SubSeq(s, 1, IF Len(s) < n THEN Len(s) ELSE n)

\* C26: in every state frame the foods list is the first up to 250 foods, in
\* the order of the room's food list, that lie within 1800 units of the
\* recipient's head.
C26_FirstFoodsInView ==
  \A n \in StateFrames :
    sent[n].foods = FirstOf(WithinView(rooms[sent[n].roomId].foods, HeadOf(n)), 250)

\* C26's cases: a frame that shows the food at 1000 units and the one on the
\* edge at 1800 but not those at 1801 and 2000 units of the list
C26_NearShownFarHidden ==
  \E n \in StateFrames :
    LET pos == HeadOf(n)
        foods == rooms[sent[n].roomId].foods
        shown == { sent[n].foods[k] : k \in 1..Len(sent[n].foods) }
        all == { foods[k] : k \in 1..Len(foods) }
    IN  /\ FoodAt(pos, 1000) \in shown
        /\ FoodAt(pos, 1800) \in shown
        /\ FoodAt(pos, 2000) \in all \ shown
        /\ FoodAt(pos, 1801) \in all \ shown

\* a frame at the cap: a food in view is left out because 250 came before it
C26_CappedAt250 ==
  \E n \in StateFrames :
    /\ Len(sent[n].foods) = 250
    /\ Len(WithinView(rooms[sent[n].roomId].foods, HeadOf(n))) > 250

C27_TwoFramesSamePlayer ==
  \E ws \in Sockets : \E i \in 1..Len(stateLog[ws]) - 1 :
    stateLog[ws][i].playerId = stateLog[ws][i + 1].playerId

\* ------------------------------------------------------- input direction
\* the last handler accepted an input frame
InputAccepted == Len(logged) = 1 /\ logged[1].type = "player_input"

\* C28: after any accepted input frame the player's targetDirectionRad lies
\* in the half-open interval (-pi, pi].
C28_DirectionNormalized ==
  [][\A ws \in Sockets, msg \in TieInputs :
       (Input(ws, msg) /\ InputAccepted') =>
         LET target == rooms'[logged'[1].roomId].players[logged'[1].playerId].targetDirectionRad
         IN  -Pi < target /\ target <= Pi]_vars

\* the interval the code normalizes into: [-pi, pi)
C28_DirectionInClosedOpen ==
  [][\A ws \in Sockets, msg \in TieInputs :
       (Input(ws, msg) /\ InputAccepted') =>
         LET target == rooms'[logged'[1].roomId].players[logged'[1].playerId].targetDirectionRad
         IN  -Pi <= target /\ target < Pi]_vars

\* ------------------------------------------------------- bad frames
FrameBurst == 50

\* JSON.parse('1e999'): a number that is not finite
Infinity == [k |-> "inf", v |-> 0]

\* the input frames of SpecFrames: naming player 1, player 2 or no string,
\* with a finite or non-finite direction and a boolean boosting field
FrameInputs ==
  { [playerId |-> id, directionRad |-> d, boosting |-> b] :
      id \in {Str(1), Str(2), Num(1)},
      d \in {Num(90), Infinity, NaN},
      b \in {Bool(TRUE), Bool(FALSE)} }

\* msg names the player of the session of ws
Owns(ws, msg) ==
  /\ ws \in DOMAIN meta /\ meta[ws].roomId \in DOMAIN rooms
  /\ msg.playerId.k = "str"
  /\ msg.playerId.v \in DOMAIN rooms[meta[ws].roomId].players
  /\ rooms[meta[ws].roomId].players[msg.playerId.v].ws = ws

\* the frame a client repeats to spend its tokens
BurstInput(ws, msg) ==
  Owns(ws, msg) /\ msg.directionRad = Num(90) /\ msg.boosting = Bool(TRUE)

\* the frames a run starts with, the two hello frames among them
EdgeFrames == 4

\* ws is at the start of its run, or its bucket is down to its last token
AtBurstEdge(ws) ==
  /\ ws \in DOMAIN meta
  /\ \/ frames < EdgeFrames
     \/ meta[ws].inputAllowance < 2000

\* SpecFrames: two sessions join; session w1 then sends a burst of inputs
\* within one instant, and before the burst and at its end frames of every
\* kind: malformed, unknown, invalid, naming the other player.
NextFrames ==
  \/ \E ws \in SpecSockets : Connect(ws)
  \/ \E ws \in SpecSockets : frames < FrameBurst /\ Hello(ws, "bo", 0, 0, 0)
  \/ \E msg \in FrameInputs :
       /\ frames < FrameBurst
       /\ AtBurstEdge("w1") \/ BurstInput("w1", msg)
       /\ Input("w1", msg)
  \/ \E kind \in {"unknown", "malformed"} :
       frames < FrameBurst /\ AtBurstEdge("w1") /\ OtherFrame("w1", kind)

SpecFrames == Init /\ [][NextFrames]_vars

\* the frame passes the checks that come before the validation: it names the
\* sender's own player and the bucket holds a token
ReachesValidation(ws, msg) ==
  Owns(ws, msg) /\ Refill(meta[ws]).inputAllowance >= 1000

NonFinite(msg) == msg.directionRad.k \in {"nan", "inf"}

\* C29: an input frame whose directionRad is a non-finite number changes no
\* player's targetDirectionRad or boosting, whatever boosting field it
\* carries, and once past the ownership and rate checks it increments
\* inputInvalid by exactly one and no other counter.
C29_NonFiniteDropped ==
  [][\A ws \in SpecSockets, msg \in FrameInputs :
       (Input(ws, msg) /\ NonFinite(msg)) =>
         /\ rooms' = rooms
         /\ IF ReachesValidation(ws, msg)
            THEN metrics' = [metrics EXCEPT !.inputInvalid = @ + 1]
            ELSE metrics'.inputInvalid = metrics.inputInvalid]_vars

\* C29's case: the owner's frame with a non-finite direction and boosting
\* false was counted while the player goes on boosting towards its target
C29_InvalidCounted ==
  /\ metrics.inputInvalid = 1
  /\ Len(logged) = 1 /\ logged[1].type = "player_input_invalid"
  /\ \E id \in DOMAIN rooms : \E p \in DOMAIN rooms[id].players :
       /\ rooms[id].players[p].ws = "w1"
       /\ rooms[id].players[p].boosting
       /\ rooms[id].players[p].targetDirectionRad = 90

\* an input frame the pipeline must drop: it does not name the sender's own
\* player, or its direction is not finite, or the sender's bucket is empty
BadInput(ws, msg) ==
  \/ ~Owns(ws, msg)
  \/ NonFinite(msg)
  \/ Refill(meta[ws]).inputAllowance < 1000

\* a malformed, unknown, invalid, throttled or spoof-rejected frame of ws
BadFrameOn(ws) ==
  \/ \E kind \in {"unknown", "malformed"} : OtherFrame(ws, kind)
  \/ \E msg \in FrameInputs : BadInput(ws, msg) /\ Input(ws, msg)

\* C30: a bad frame of session A leaves every other session's record, every
\* player not owned by A, every room's player map and every food list
\* unchanged.
C30_BadFrameIsolated ==
  [][\A A \in SpecSockets :
       BadFrameOn(A) =>
         /\ DOMAIN meta' = DOMAIN meta
         /\ \A w \in DOMAIN meta \ {A} : meta'[w] = meta[w]
         /\ DOMAIN rooms' = DOMAIN rooms
         /\ \A id \in DOMAIN rooms :
              /\ DOMAIN rooms'[id].players = DOMAIN rooms[id].players
              /\ rooms'[id].foods = rooms[id].foods
              /\ \A p \in DOMAIN rooms[id].players :
                   rooms[id].players[p].ws # A =>
                     rooms'[id].players[p] = rooms[id].players[p]
         /\ UNCHANGED << wsState, closeCode >>]_vars

\* C30's case: a frame of w1 naming the player of the joined session w2 has
\* just been rejected
C30_SpoofRejected ==
  /\ Len(logged) = 1 /\ logged[1].type = "player_input_spoof"
  /\ \E id \in DOMAIN rooms :
       /\ logged[1].playerId \in DOMAIN rooms[id].players
       /\ rooms[id].players[logged[1].playerId].ws = "w2"

\* a frame of w1 has just been throttled while w2 is joined
C30_ThrottledBesideOther ==
  /\ Len(logged) = 1 /\ logged[1].type = "player_input_throttled"
  /\ "w2" \in DOMAIN meta /\ meta["w2"].roomId # Null

\* ------------------------------------------------------ food on the map
\* SpecFeed: two sockets connect and one of them joins a sparsely fed room
\* heading west, all before the first tick; the simulation ticks on time, every
\* FeedStep milliseconds for FeedWindow milliseconds, its Math.random() calls
\* returning 0 or 0.999.
FeedFrames == 1

FeedStep == 50

FeedWindow == 3000

\* Math.random() per mille: 0 and a value just below 1
FeedDraws == {0, 999}

NextFeed ==
  \/ \E ws \in SpecSockets : ~Joined("w1") /\ Connect(ws)
  \/ frames < FeedFrames /\ Hello("w1", "bo", 0, 0, 500)
  \/ \E r \in FeedDraws : Tick(r)
  \/ ~TickDue /\ Joined("w1") /\ AdvanceClock(FeedStep, StartTime + FeedWindow)

SpecFeed == Init /\ [][NextFeed]_vars

\* clusterSize = 15 + Math.floor(Math.random() * 40) is at most 54 (line 679)
MaxClusterSize == 54

\* the ceiling the food count of a room is held to: the density target, one
\* cluster and the near-player target of each of its players
FoodCeiling(room) ==
  (room.config.foodCoveragePercent * 2000) \div 100
    + MaxClusterSize
    + Cardinality(DOMAIN room.players) * Max(0, room.config.foodNearPlayerTarget)

\* C31: the food count of every room stays within the density target plus one
\* cluster plus the near-player top-up of its players, whatever the ticks do.
C31_FoodCountBounded ==
  \A id \in DOMAIN rooms : Len(rooms[id].foods) <= FoodCeiling(rooms[id])

\* what the code does hold to: a tick that eats nothing never shrinks the food
\* list, and a top-up adds at most the near-player target per player
C31_TopUpPerTick ==
  [][\A r \in FeedDraws : \A id \in DOMAIN rooms :
       (Tick(r) /\ DOMAIN rooms[id].players # {}) =>
         /\ Len(rooms'[id].foods) >= Len(rooms[id].foods)
         /\ Len(rooms'[id].foods) <= Len(rooms[id].foods)
              + Cardinality(DOMAIN rooms[id].players)
                  * Max(0, rooms[id].config.foodNearPlayerTarget)]_vars

\* ------------------------------------------------------ body polylines
\* the shortest step a head makes in a tick when nothing stops it, in tenths
\* of a unit: the unboosted speed over one tick (lines 564-566), less one unit
\* for the rounding of the two coordinates
MinStep(score) == computeSpeed(score, FALSE) \div TICK_RATE - 10

\* the number of points a polyline of segments no shorter than MinStep holds
\* once trimBodyToLength has cut it: the segments within targetLength, the one
\* that crosses it, and the head
BodyCeiling(player, cfg) ==
  computeTargetLength(player.score, cfg) \div MinStep(player.score) + 2

\* C32: the polyline of every player has at most BodyCeiling points, a
\* function of targetLength(score), also while the head is held at the map
\* boundary.
C32_BodyBounded ==
  \A id \in DOMAIN rooms : \A p \in DOMAIN rooms[id].players :
    Len(rooms[id].players[p].bodyPoints)
      <= BodyCeiling(rooms[id].players[p], rooms[id].config)

\* the head has never been stopped by the boundary: no two consecutive points
\* of the polyline are closer than MinStep
FullSteps(player) ==
  \A i \in 2..Len(player.bodyPoints) :
    Hypot10(player.bodyPoints[i], player.bodyPoints[i - 1]) >= MinStep(player.score)

\* what the code does hold to: a polyline made of full steps only stays
\* within BodyCeiling points
C32_FullStepsBounded ==
  \A id \in DOMAIN rooms : \A p \in DOMAIN rooms[id].players :
    FullSteps(rooms[id].players[p]) =>
      Len(rooms[id].players[p].bodyPoints)
        <= BodyCeiling(rooms[id].players[p], rooms[id].config)

\* a player that has travelled its whole target length in full steps
C32_FullLengthTravelled ==
  \E id \in DOMAIN rooms : \E p \in DOMAIN rooms[id].players :
    /\ FullSteps(rooms[id].players[p])
    /\ Len(rooms[id].players[p].bodyPoints) >= 14

\* ------------------------------------------------------ death drops
\* "Death drops decay over ~15 s" (README, key simulation details)
DROP_DECAY_MS == 15000

\* what "about" 15 s allows on top
DecayGrace == 1000

DecayRequests == 1

DecayFrames == 3

DecayStep == 500

DecayWindow == 17000

\* SpecDecay: the admin sets the near-player food target of new rooms to 0;
\* then up to three sessions join one room heading east, each where its spawn
\* draw puts it, before the first tick, and the simulation ticks every
\* DecayStep milliseconds (its timer running late) for DecayWindow
\* milliseconds. Nobody boosts, so the only foods the room ever holds are
\* death drops.
NextDecay ==
  \/ \E ws \in Sockets : now = StartTime /\ Connect(ws)
  \/ now = StartTime /\ requests < DecayRequests /\ rooms = EmptyMap
       /\ PatchDefaultConfig("foodNearPlayerTarget", 0)
  \/ \E ws \in Sockets, r \in RandomDraws :
       /\ now = StartTime /\ frames < DecayFrames
       /\ defaultConfig.foodNearPlayerTarget = 0
       /\ Hello(ws, "bo", r, r, 0)
  \/ \E r \in RandomDraws : Tick(r)
  \/ ~TickDue /\ rooms # EmptyMap /\ AdvanceClock(DecayStep, StartTime + DecayWindow)

SpecDecay == Init /\ [][NextDecay]_vars

\* the death drops among the foods of room id
DeathDropsIn(id) ==
  { n \in 1..Len(rooms[id].foods) : rooms[id].foods[n].droppedAt # Null }

\* C33: no room holds a death drop older than about 15 seconds, eaten or not.
C33_DeathDropsDecay ==
  \A id \in DOMAIN rooms : \A n \in DeathDropsIn(id) :
    now - rooms[id].foods[n].droppedAt <= DROP_DECAY_MS + DecayGrace

\* C33's case: a death drop lies in a room for longer than that while a
\* player of the room is alive and has not eaten it
C33_OldDropBesideSurvivor ==
  \E id \in DOMAIN rooms :
    /\ DOMAIN rooms[id].players # {}
    /\ \E n \in DeathDropsIn(id) :
         now - rooms[id].foods[n].droppedAt > DROP_DECAY_MS + DecayGrace

\* ------------------------------------------------------- steering
\* the heading the motion phase gives a player (lines 562-563)
ExpectedHeading(player) ==
  rotateTowards(player.directionRad, player.targetDirectionRad, MaxTurn(player.score))

\* the head the motion phase gives a player (lines 564-569)
ExpectedHead(player, cfg) ==
  LET speed == computeSpeed(player.score, player.boosting)
      dx == RoundDiv(Cos1000(ExpectedHeading(player)) * speed, 10000 * TICK_RATE)
      dy == RoundDiv(Sin1000(ExpectedHeading(player)) * speed, 10000 * TICK_RATE)
  IN  << Clamp(player.position[1] + dx, cfg.mapSize),
         Clamp(player.position[2] + dy, cfg.mapSize) >>

\* the steering of player p of room id differs across the step
Resteered(id, p) ==
  \/ rooms'[id].players[p].targetDirectionRad # rooms[id].players[p].targetDirectionRad
  \/ rooms'[id].players[p].boosting # rooms[id].players[p].boosting

\* C34: inputs take effect in arrival order and the next tick uses them: an
\* accepted input frame leaves its sender's player with the frame's direction
\* (normalized) and boosting flag; nothing but an accepted input frame changes
\* a player's target direction or boosting flag; and a tick turns every player
\* of a populated room from its heading towards its target direction by at
\* most the turn rate and moves its head at the speed of its boosting flag.
C34_LastInputSteersTick ==
  [][/\ \A ws \in SpecSockets, msg \in TieInputs :
          (Input(ws, msg) /\ InputAccepted') =>
            LET player == rooms'[logged'[1].roomId].players[logged'[1].playerId]
            IN  /\ player.ws = ws
                /\ player.targetDirectionRad = normalizeAngle(msg.directionRad)
                /\ player.boosting = (msg.boosting.v = 1)
     /\ \A id \in DOMAIN rooms \cap DOMAIN rooms' :
          \A p \in DOMAIN rooms[id].players \cap DOMAIN rooms'[id].players :
            Resteered(id, p) =>
              /\ frames' = frames + 1
              /\ InputAccepted'
              /\ logged'[1].playerId = p
     /\ \A r \in RandomDraws : Tick(r) =>
          \A id \in DOMAIN tickLog' : \A p \in DOMAIN rooms[id].players :
            /\ tickLog'[id].players[p].position
                 = ExpectedHead(rooms[id].players[p], rooms[id].config)
            /\ p \in DOMAIN rooms'[id].players =>
                 rooms'[id].players[p].directionRad = ExpectedHeading(rooms[id].players[p])
    ]_vars

\* C34's case: a session had two inputs accepted before the tick, the last
\* one pointing west and boosting; the tick has turned its player from east
\* towards west by the turn rate and moved it at boost speed
C34_TurnedToLastInput ==
  \E id \in DOMAIN rooms \cap DOMAIN tickLog : \E p \in DOMAIN rooms[id].players :
    LET player == rooms[id].players[p]
    IN  /\ StartTime \in DOMAIN accepted[player.ws]
        /\ accepted[player.ws][StartTime] = 2
        /\ now > StartTime
        /\ player.targetDirectionRad = -Pi
        /\ player.directionRad = -MaxTurn(100)
        /\ player.boosting
        /\ Len(player.bodyPoints) = 2
        /\ distanceSquared(player.bodyPoints[1], player.bodyPoints[2]) > 15 * 15

\* ------------------------------------------------------- default config
DefaultFrames == 3

DefaultRequests == 2

\* SpecDefault: three sessions join while the admin patches maxPlayers of room
\* 1 to 2 and maxPlayers of the default config to 1 (refused by the schema) or
\* to 3, in any order.
NextDefault ==
  \/ \E ws \in Sockets : Connect(ws)
  \/ \E ws \in Sockets, r \in RandomDraws :
       frames < DefaultFrames /\ Hello(ws, "bo", r, r, r)
  \/ requests < DefaultRequests /\ PatchRoomConfig(1, "maxPlayers", 2)
  \/ \E value \in {1, 3} :
       requests < DefaultRequests /\ PatchDefaultConfig("maxPlayers", value)

SpecDefault == Init /\ [][NextDefault]_vars

\* C35: a patch of the default config leaves every existing room as it is,
\* configuration included, and a room that a hello creates (createRoom without
\* overrides) has exactly the default config in force at that moment.
C35_DefaultAppliesToNewRooms ==
  [][/\ \A value \in {1, 3} : PatchDefaultConfig("maxPlayers", value) => rooms' = rooms
     /\ \A ws \in Sockets, r \in RandomDraws :
          Hello(ws, "bo", r, r, r) =>
            /\ defaultConfig' = defaultConfig
            /\ \A id \in DOMAIN rooms : rooms'[id].config = rooms[id].config
            /\ \A id \in DOMAIN rooms' \ DOMAIN rooms : rooms'[id].config = defaultConfig
    ]_vars

\* C35's case: room 1 was created from the first default and later patched to
\* two players; the default was then patched to three players, which left
\* room 1 alone; a hello that found room 1 full has just created room 2 from
\* the patched default
C35_OldRoomKeptNewRoomPatched ==
  /\ DOMAIN rooms = {1, 2}
  /\ defaultConfig = Merge(SparseConfig, "maxPlayers", 3)
  /\ rooms[1].config = Merge(SparseConfig, "maxPlayers", 2)
  /\ rooms[2].config = defaultConfig
  /\ Len(sent) = 1 /\ sent[1].t = "joined" /\ sent[1].a = 2

\* ------------------------------------------------------- the food phase
\* the room of a tick as its motion phase leaves it: the heads moved, the
\* boost decay taken and the boost pellets dropped (lines 560-577)
AfterMotion(id, r) ==
  MotionPhase([rooms[id] EXCEPT !.emptySince = Null],
              KeysInOrder(DOMAIN rooms[id].players), 1, r)

\* the worth of the foods foods[k..] to whoever eats them
RECURSIVE WorthFrom(_, _, _)
WorthFrom(foods, k, cfg) ==
  IF k > Len(foods) THEN 0
  ELSE (foods[k].value * Max(0, cfg.foodValueMultiplier)) \div 10
         + WorthFrom(foods, k + 1, cfg)

\* what the food phase added to the scores of the players ids[i..]: log is the
\* scan record of the tick, moved the room as the motion phase left it
RECURSIVE GainsFrom(_, _, _, _)
GainsFrom(log, moved, ids, i) ==
  IF i > Len(ids) THEN 0
  ELSE log.players[ids[i]].score - moved.players[ids[i]].score
         + GainsFrom(log, moved, ids, i + 1)

\* every food lies within the body radius of the head of player p
AllInReach(moved, p) ==
  \A k \in 1..Len(moved.foods) :
    WithinRadius(moved.foods[k].position[1] - moved.players[p].position[1],
                 moved.foods[k].position[2] - moved.players[p].position[2],
                 computeRadius(moved.players[p].score, moved.config))

\* C36: in the food phase of a tick no score drops, the scores rise in total
\* by exactly the worth (value * foodValueMultiplier) of the foods that are
\* gone after the phase, so that every eaten food is credited once and to one
\* player only, and foods in reach of the first player of the room go to that
\* player, whoever else is in reach of them.
C36_FoodEatenOnce ==
  [][\A r \in RandomDraws : Tick(r) =>
       \A id \in DOMAIN tickLog' :
         LET ids == KeysInOrder(DOMAIN rooms[id].players)
             moved == AfterMotion(id, r)
             log == tickLog'[id]
         IN  /\ \A p \in DOMAIN rooms[id].players :
                  log.players[p].score >= moved.players[p].score
             /\ Len(log.foods) <= Len(moved.foods)
             /\ GainsFrom(log, moved, ids, 1)
                  = WorthFrom(moved.foods, 1, moved.config)
                      - WorthFrom(log.foods, 1, moved.config)
             /\ AllInReach(moved, ids[1]) =>
                  /\ log.foods = << >>
                  /\ \A p \in DOMAIN rooms[id].players \ {ids[1]} :
                       log.players[p].score = moved.players[p].score]_vars

\* C36's case: two boosting players with their heads at the same point have
\* each dropped a pellet there; the food phase gave both pellets to the first
\* player and nothing to the second
C36_ContestedPelletsToFirst ==
  \E id \in DOMAIN tickLog :
    /\ Cardinality(DOMAIN tickLog[id].players) = 2
    /\ tickLog[id].foods = << >>
    /\ \E p, q \in DOMAIN tickLog[id].players :
         /\ p < q
         /\ tickLog[id].players[p].position = tickLog[id].players[q].position
         /\ tickLog[id].players[p].score = 100 - BoostDecay(100) + 2 * 5
         /\ tickLog[id].players[q].score = 100 - BoostDecay(100)

\* ------------------------------------------------ joining an expired room
RaceFrames == 2

RaceRequests == 1

RaceStep == 1000

RaceWindow == 3000

\* the ttl of the room the admin creates, in seconds
RaceTtl == 2

\* SpecRace: the admin creates a room with a ttl of RaceTtl seconds at the
\* start; two sessions connect, join and leave at any time; the clock moves
\* in steps of RaceStep and the tick runs when due or any time later.
NextRace ==
  \/ \E ws \in SpecSockets : Connect(ws)
  \/ \E ws \in SpecSockets : frames < RaceFrames /\ Hello(ws, "bo", 0, 0, 0)
  \/ \E ws \in SpecSockets : CloseEvent(ws)
  \/ now = StartTime /\ requests < RaceRequests
       /\ CreateRoomAdmin("emptyRoomTtlSeconds", RaceTtl)
  \/ \E r \in RandomDraws : Tick(r)
  \/ AdvanceClock(RaceStep, StartTime + RaceWindow)

SpecRace == Init /\ [][NextRace]_vars

\* the step closes room id with reason timeout_empty
TimedOut(id) == InSeq(LogEntry("room_close:timeout_empty", id, 0), logged')

\* C37: a room with a player in it is never closed with reason timeout_empty:
\* every step that closes a room for that reason starts in a state where the
\* room has no player and its ttl has elapsed since emptySince, and a hello
\* that joins a room leaves its emptySince null.
C37_PopulatedRoomNotTimedOut ==
  [][/\ \A id \in DOMAIN rooms :
          /\ TimedOut(id) => TtlElapsed(id)
          /\ DOMAIN rooms[id].players # {} => ~TimedOut(id)
     /\ \A ws \in SpecSockets :
          (Hello(ws, "bo", 0, 0, 0) /\ Len(sent') = 1 /\ sent'[1].t = "joined") =>
            rooms'[sent'[1].a].emptySince = Null
    ]_vars

\* C37's case: the session of the first player ever connected when the room
\* the admin had created at the start had already been empty for its ttl; it
\* joined that room before the late tick ran, and the tick then simulated
\* the room instead of closing it
C37_JoinedExpiredRoomSurvives ==
  \E id \in DOMAIN rooms \cap DOMAIN tickLog : \E ws \in DOMAIN meta :
    /\ rooms[id].config.emptyRoomTtlSeconds = RaceTtl
    /\ meta[ws].inputRefillAt >= StartTime + RaceTtl * 1000
    /\ meta[ws].roomId = id
    /\ DOMAIN rooms[id].players = {1}
    /\ rooms[id].players[1].ws = ws
    /\ nextPlayerId = 2
    /\ metrics.roomsClosedTimeout = 0

\* the collector works in SpecRace: a tick has closed the admin's room
C37_ExpiredRoomCollected ==
  /\ metrics.roomsClosedTimeout = 1
  /\ logged = << LogEntry("room_close:timeout_empty", 1, 0) >>

\* ------------------------------------------- state frames after eviction
\* SpecEvict: SpecView with an admin who kicks a player or bans the name the
\* sessions use.
NextEvict ==
  \/ NextView
  \/ \E id \in 1..MaxRooms, p \in 1..MaxPlayerIds :
       ~ViewDue /\ requests < MaxRequests /\ Kick(id, p)
  \/ ~ViewDue /\ requests < MaxRequests /\ Ban("bo")

SpecEvict == Init /\ [][NextEvict]_vars

\* the session of socket ws has a player in room id, which is open
PlaysIn(ws, id) ==
  /\ id \in DOMAIN rooms
  /\ ~rooms[id].isClosed
  /\ \E p \in DOMAIN rooms[id].players : rooms[id].players[p].ws = ws
  /\ ws \in DOMAIN meta
  /\ meta[ws].roomId = id

\* C38: every state frame a broadcast sends goes to an open socket whose
\* session has a player in the frame's room, an open room, at that moment; a
\* session that is bound to no room (its player died, was kicked or banned,
\* and it has not joined again) gets none.
C38_StateOnlyToPlayers ==
  [][Broadcast =>
       /\ \A n \in 1..Len(sent') :
            sent'[n].t = "state" =>
              /\ wsState[sent'[n].to] = "open"
              /\ PlaysIn(sent'[n].to, sent'[n].roomId)
       /\ \A ws \in Sockets :
            (ws \notin DOMAIN meta \/ meta[ws].roomId = Null) =>
              stateLog'[ws] = stateLog[ws]]_vars

\* the last handler was a broadcast that sent a state frame to some session
\* and none to ws
BroadcastPassedOver(ws) ==
  /\ nextBroadcastAt = now + 1000 \div BROADCAST_RATE
  /\ \E n \in 1..Len(sent) : sent[n].t = "state"
  /\ \A n \in 1..Len(sent) : sent[n].to # ws

\* C38's case: a session that had been getting state frames was sent 'dead'
\* and has not joined again; the broadcast that followed served another
\* session and passed it over
C38_DeadPassedOver ==
  \E ws \in SpecSockets :
    /\ wsState[ws] = "open"
    /\ ws \in DOMAIN meta /\ meta[ws].roomId = Null
    /\ stateLog[ws] # << >>
    /\ closeCode[ws] = Null
    /\ BroadcastPassedOver(ws)

\* C38's other case: the same for a session that was kicked or banned and
\* whose close event is still to come
C38_EvictedPassedOver ==
  \E ws \in SpecSockets :
    /\ wsState[ws] = "closing"
    /\ closeCode[ws] \in {4000, 4001}
    /\ meta[ws].roomId = Null
    /\ stateLog[ws] # << >>
    /\ BroadcastPassedOver(ws)

\* ------------------------------------------------- hello after a kick
\* C39: a session that has been kicked (its socket closed with code 4000)
\* never has a player again, in any room; in particular a hello that arrives
\* on the kicked socket before its close event is handled creates none.
C39_KickedNeverRejoins ==
  \A ws \in Sockets : closeCode[ws] = 4000 => PlayersOf(ws) = {}

\* what the code does hold to: once the close event of a kicked socket has
\* been handled, the session has no player
C39_KickedAndClosedHasNoPlayer ==
  \A ws \in Sockets :
    (closeCode[ws] = 4000 /\ wsState[ws] = "closed") => PlayersOf(ws) = {}

\* a kicked session joined again and its close event has then been handled
C39_RejoinedThenClosed ==
  \E ws \in Sockets :
    /\ closeCode[ws] = 4000
    /\ wsState[ws] = "closed"
    /\ nextPlayerId > 2
    /\ \A id \in DOMAIN rooms : DOMAIN rooms[id].players = {}
    /\ \A w \in Sockets \ {ws} : wsState[w] = "idle"

\* ------------------------------------------------------------ room cleanup
\* SpecCleanup: one session joins a room whose emptyRoomTtlSeconds is
\* CleanupTtl, answers at most one ping, and either disconnects or goes silent
\* until the idle sweep closes it. The timers (setInterval callbacks) and the
\* close event of a socket the server closed are weakly fair; the client's own
\* disconnect is not. The clock moves in steps of CleanupStep once every due
\* timer has fired, up to StartTime + CleanupWindow; the client disconnects
\* only before the last step, so that the TTL can elapse inside the window.
CleanupTtl == 2
CleanupFrames == 2
CleanupRequests == 1
CleanupStep == 5000
CleanupWindow == 45000

CleanupPatch ==
  /\ now = StartTime /\ requests < CleanupRequests /\ rooms = EmptyMap
  /\ PatchDefaultConfig("emptyRoomTtlSeconds", CleanupTtl)

CleanupJoin ==
  /\ now = StartTime /\ frames = 0
  /\ defaultConfig.emptyRoomTtlSeconds = CleanupTtl
  /\ Hello("w1", "bo", 0, 0, 0)

CleanupPong ==
  /\ frames < CleanupFrames /\ Joined("w1") /\ meta["w1"].lastPingId # Null
  /\ Pong("w1", Num(meta["w1"].lastPingId))

ClientClose ==
  /\ wsState["w1"] = "open" /\ now < StartTime + CleanupWindow
  /\ CloseEvent("w1")

ServerClose == wsState["w1"] = "closing" /\ CloseEvent("w1")

CleanupTick == \E r \in {0} : Tick(r)

CleanupClock == ~TimerDue /\ AdvanceClock(CleanupStep, StartTime + CleanupWindow)

NextCleanup ==
  \/ now = StartTime /\ Connect("w1")
  \/ CleanupPatch
  \/ CleanupJoin
  \/ CleanupPong
  \/ ClientClose
  \/ ServerClose
  \/ PingLoop
  \/ IdleSweep
  \/ CleanupTick
  \/ CleanupClock

\* the tick timer fires: the step that reschedules it. Within NextCleanup only
\* CleanupTick changes nextTickAt, so fairness of this step is fairness of the
\* tick; it is stated on the timer alone to keep its enabling condition the
\* timer's own (now >= nextTickAt).
TickFires == now >= nextTickAt /\ nextTickAt' = now + 1000 \div TICK_RATE

SpecCleanup ==
  /\ Init /\ [][NextCleanup]_vars
  /\ WF_vars(PingLoop) /\ WF_vars(IdleSweep) /\ WF_nextTickAt(TickFires)
  /\ WF_vars(CleanupClock) /\ WF_vars(ServerClose)

\* the one session that ever joined room 1 is closed
SessionsClosed == 1 \in DOMAIN rooms /\ wsState["w1"] = "closed"

RoomTimedOut == 1 \notin DOMAIN rooms /\ metrics.roomsClosedTimeout = 1

C40_PlayerMapEmpties ==
  SessionsClosed ~> (1 \notin DOMAIN rooms \/ rooms[1].players = EmptyMap)

\* C40: a room whose session disconnected by itself is closed by its TTL
C40_DisconnectedRoomClosed ==
  (SessionsClosed /\ closeCode["w1"] # 4002) ~> RoomTimedOut

\* C40: the session was closed by the idle sweep (4002), the close event has
\* run, and its player is still in the room's player map
C40_IdleEvictedStillPlaying ==
  /\ SessionsClosed /\ closeCode["w1"] = 4002
  /\ rooms[1].players # EmptyMap

====
